---- MODULE Spec2Model ----
(***************************************************************************)
(* fstream-walk: the recursive directory walker (src/src/core.js), its     *)
(* include/exclude filters (src/src/utils.ts, src/src/utils.js), the       *)
(* validation of its options (src/src/options.js), its error classes       *)
(* (src/src/errors.js) and the consumer that drives the async generator.   *)
(*                                                                         *)
(* A file name is a sequence of one-character strings, a path is a         *)
(* sequence of names.  The walker is modelled frame by frame: the stack    *)
(* holds one record per active call of walk(), and every action is one     *)
(* stretch of code between two suspension points (await or yield).         *)
(***************************************************************************)
EXTENDS Integers, Sequences, FiniteSets, TLC

\* ------------------------------------------------------------------ bounds
\* number of I/O faults the environment may inject in one traversal
MaxFaults == 1
\* number of options the caller sets to something else than the default
MaxOptionsSet == 2

\* number of keys of the object given to sanitizeOptions when it is called
\* on its own
MaxSupplied == 2

\* the depth limit given to traversals that would otherwise descend for ever
MaxDescent == 2

\* number of times a traversal is started again after one has ended
MaxRestarts == 1

\* maxDepth: Infinity of DEFAULT_OPTIONS, larger than any depth of a tree
Infinity == 1000

\* ------------------------------------------------------------- file names
Alphabet ==
  <<".", "a", "b", "c", "d", "e", "f", "g", "h", "l", "m", "p", "r", "s", "t",
    "u", "x">>

CharOrd(c) == CHOOSE i \in 1..Len(Alphabet) : Alphabet[i] = c

\* String.prototype.localeCompare on names of lower-case letters: < 0
RECURSIVE NameLess(_, _)
NameLess(a, b) ==
  IF a = <<>> THEN b # <<>>
  ELSE IF b = <<>> THEN FALSE
  ELSE IF Head(a) = Head(b) THEN NameLess(Tail(a), Tail(b))
  ELSE CharOrd(Head(a)) < CharOrd(Head(b))

\* String.prototype.includes
Includes(s, pat) ==
  \E i \in 1..(Len(s) - Len(pat) + 1) : SubSeq(s, i, i + Len(pat) - 1) = pat

\* path.join(dirPath, name) for a name without separators
joinPath(dirPath, name) == Append(dirPath, name)

\* ------------------------------------------------------------ filter rules
\* A filter rule (PatternType): null, a string, a RegExp or a predicate.  A
\* RegExp or a predicate is given by the set of names it accepts.
NullRule == [type |-> "null", pat |-> <<>>, accepts |-> {}]
StringRule(p) == [type |-> "string", pat |-> p, accepts |-> {}]
FunctionRule(S) == [type |-> "function", pat |-> <<>>, accepts |-> S]

\* Values that are no PatternType but that a caller can pass all the same
\* (options.js does not validate include and exclude): a number, a boolean,
\* a plain object or an array (typeof "object").  type is the typeof.
NumberRule(n) == [type |-> "number", num |-> n]
BooleanRule(b) == [type |-> "boolean", bool |-> b]

\* JavaScript truthiness of a rule, as tested by `options.exclude && ...`
Truthy(rule) ==
  /\ rule.type # "null"
  /\ ~(rule.type = "string" /\ rule.pat = <<>>)
  /\ ~(rule.type = "number" /\ rule.num = 0)
  /\ ~(rule.type = "boolean" /\ ~rule.bool)

matchThrowsNever(pattern) == FALSE

\* match() raises a TypeError
matchThrows(pattern) ==
  \/ pattern.type = "string" /\ pattern.pat = <<>>
  \/ pattern.type \notin {"null", "regexp", "string", "function"}

\* match(fileName, pattern), where it does not raise
match(fileName, pattern) ==
  IF pattern.type = "null" THEN TRUE
  ELSE IF pattern.type = "regexp" THEN fileName \in pattern.accepts
  ELSE IF pattern.type = "string" THEN Includes(fileName, pattern.pat)
  ELSE IF pattern.type = "function" THEN fileName \in pattern.accepts
  ELSE FALSE

\* applyFilters(name, options): exclude is evaluated first
applyFiltersExcludeLast(name, options) ==
  IF Truthy(options.include) /\ match(name, options.include) THEN TRUE
  ELSE IF Truthy(options.exclude) /\ match(name, options.exclude) THEN FALSE
  ELSE ~Truthy(options.include)

applyFilters(name, options) ==
  IF Truthy(options.exclude) /\ match(name, options.exclude) THEN FALSE
  ELSE IF Truthy(options.include) /\ ~match(name, options.include) THEN FALSE
  ELSE TRUE

\* applyFilters(name, options) raises the TypeError of one of its two calls
\* of match(): that of exclude, or, when exclude lets the name through, that
\* of include
applyFiltersThrows(name, options) ==
  \/ Truthy(options.exclude) /\ matchThrows(options.exclude)
  \/ /\ Truthy(options.include) /\ matchThrows(options.include)
     /\ ~(Truthy(options.exclude) /\ match(name, options.exclude))

\* ------------------------------------------------------------------- globs
\* globToRegex(pattern): the regular expression as a sequence of tokens, for
\* patterns over literals, '*', '**', '?', '/' and '.' (the model's patterns
\* hold no '[' and no '{').
RECURSIVE globToRegex(_)
globToRegex(pattern) ==
  IF pattern = <<>> THEN <<>>
  ELSE IF Head(pattern) = "*" THEN
    IF Len(pattern) >= 2 /\ pattern[2] = "*" THEN
      IF Len(pattern) >= 3 /\ pattern[3] = "/"
      THEN <<[t |-> "optdirs", c |-> ""]>> \o globToRegex(SubSeq(pattern, 4, Len(pattern)))
      ELSE <<[t |-> "any", c |-> ""]>> \o globToRegex(SubSeq(pattern, 3, Len(pattern)))
    ELSE <<[t |-> "star", c |-> ""]>> \o globToRegex(Tail(pattern))
  ELSE IF Head(pattern) = "?" THEN <<[t |-> "q", c |-> ""]>> \o globToRegex(Tail(pattern))
  ELSE <<[t |-> "lit", c |-> Head(pattern)]>> \o globToRegex(Tail(pattern))

\* the 'i' flag of a RegExp
Lower(c) == IF c = "A" THEN "a" ELSE IF c = "B" THEN "b" ELSE c

Suffix(s, k) == SubSeq(s, k + 1, Len(s))

\* RegExp.prototype.test for the anchored expression ^tokens$
RECURSIVE RegexTest(_, _, _)
RegexTest(tokens, s, nocase) ==
  IF tokens = <<>> THEN s = <<>>
  ELSE
    LET tk == Head(tokens)
        rest == Tail(tokens)
    IN IF tk.t = "lit" THEN
         /\ s # <<>>
         /\ IF nocase THEN Lower(Head(s)) = Lower(tk.c) ELSE Head(s) = tk.c
         /\ RegexTest(rest, Tail(s), nocase)
       ELSE IF tk.t = "q" THEN
         s # <<>> /\ Head(s) # "/" /\ RegexTest(rest, Tail(s), nocase)
       ELSE IF tk.t = "star" THEN
         \E k \in 0..Len(s) :
           /\ \A i \in 1..k : s[i] # "/"
           /\ RegexTest(rest, Suffix(s, k), nocase)
       ELSE IF tk.t = "any" THEN
         \E k \in 0..Len(s) : RegexTest(rest, Suffix(s, k), nocase)
       ELSE \* optdirs: (?:.*\/)?
         \/ RegexTest(rest, s, nocase)
         \/ \E k \in 1..Len(s) : s[k] = "/" /\ RegexTest(rest, Suffix(s, k), nocase)

\* filePath.replace(/\\/g, '/')
NormalizeSeparators(s) == [i \in 1..Len(s) |-> IF s[i] = "\\" THEN "/" ELSE s[i]]

\* normalizedPath.split('/').pop()
RECURSIVE Basename(_)
Basename(s) ==
  IF \E i \in 1..Len(s) : s[i] = "/"
  THEN Basename(Suffix(s, CHOOSE i \in 1..Len(s) : s[i] = "/"))
  ELSE s

\* the body of matchGlob's loop for one pattern
matchOnePattern(normalizedPath, pattern, options) ==
  LET normalizedPattern == NormalizeSeparators(pattern)
      basename == Basename(normalizedPath)
      testPath == IF options.matchBase THEN basename
                  ELSE IF ~(\E i \in 1..Len((normalizedPattern)) : (normalizedPattern)[i] = "/") /\ (\E i \in 1..Len((normalizedPath)) : (normalizedPath)[i] = "/")
                          /\ (\E i \in 1..Len((normalizedPattern)) : (normalizedPattern)[i] \in {"*", "?", "[", "]", "{"})
                       THEN basename
                       ELSE normalizedPath
  IN RegexTest(globToRegex(normalizedPattern), testPath, options.nocase)

matchGlobKeepsDotfiles(filePath, patterns, options) ==
  \E i \in 1..Len(patterns) :
    matchOnePattern(NormalizeSeparators(filePath), patterns[i], options)

\* matchGlob(filePath, patterns, options), patterns an array of patterns
matchGlob(filePath, patterns, options) ==
  LET normalizedPath == NormalizeSeparators(filePath)
      basename == Basename(normalizedPath)
      isDotfile == basename # <<>> /\ Head(basename) = "."
  IN IF ~options.dot /\ isDotfile THEN FALSE
     ELSE \E i \in 1..Len(patterns) : matchOnePattern(normalizedPath, patterns[i], options)

Globs(ps) == [present |-> TRUE, patterns |-> ps]

\* the filter returned by createGlobFilter(include, exclude, options)
createGlobFilter(include, exclude, options, filePath) ==
  IF exclude.present /\ matchGlob(filePath, exclude.patterns, options) THEN FALSE
  ELSE IF include.present THEN matchGlob(filePath, include.patterns, options)
  ELSE TRUE

\* -------------------------------------------------------------- file system
\* A dirent is a name, a kind ("file", "dir" or "link") and, for a link, the
\* canonical path of the directory it points to (<<>> for a broken link).  A
\* tree maps the canonical path of every directory to its dirents in the
\* order the file system enumerates them.
File(n) == [name |-> n, kind |-> "file", target |-> <<>>]
Dir(n) == [name |-> n, kind |-> "dir", target |-> <<>>]
Link(n, t) == [name |-> n, kind |-> "link", target |-> t]
NoDirent == [name |-> <<>>, kind |-> "none", target |-> <<>>]

Root == << <<"r">> >>
RootD == << <<"r">>, <<"d">> >>
RootDE == << <<"r">>, <<"d">>, <<"e">> >>

\* plain nested directories
TreePlain ==
  (Root :> << File(<<"b">>), Dir(<<"d">>), File(<<"a">>) >>) @@
  (RootD :> << File(<<"c", "a">>), Dir(<<"e">>) >>) @@
  (RootDE :> << File(<<"f">>) >>)

\* directory cycles through symlinks: r/l -> r and r/d/l -> r
TreeCycle ==
  (Root :> << Link(<<"l">>, Root), File(<<"f">>), Dir(<<"d">>) >>) @@
  (RootD :> << File(<<"g">>), Link(<<"l">>, Root) >>)

\* a symlink to a sibling directory, enumerated before it, and a broken link
TreeLinks ==
  (Root :> << Link(<<"l">>, RootD), Dir(<<"d">>), Link(<<"x">>, <<>>), File(<<"a">>) >>) @@
  (RootD :> << File(<<"g">>) >>)

\* root {alpha.txt, beta.txt, sub/gamma.txt}, enumerated out of order
RootSub == << <<"r">>, <<"s", "u", "b">> >>
TreeExample ==
  (Root :> << File(<<"b", "e", "t", "a", ".", "t", "x", "t">>),
              Dir(<<"s", "u", "b">>),
              File(<<"a", "l", "p", "h", "a", ".", "t", "x", "t">>) >>) @@
  (RootSub :> << File(<<"g", "a", "m", "m", "a", ".", "t", "x", "t">>) >>)

\* the orders in which a file system may enumerate the dirents of a directory
Enumerations(list) ==
  {[i \in 1..Len(list) |-> list[p[i]]] : p \in Permutations(1..Len(list))}
\* the same directories and dirents as t, enumerated in any order
Reordered(t) ==
  {f \in [DOMAIN t -> UNION {Enumerations(t[p]) : p \in DOMAIN t}] :
     \A p \in DOMAIN t : f[p] \in Enumerations(t[p])}

VARIABLES
  tree,        \* the file system below the root (not changed by the walker)
  opts,        \* the sanitized options of this traversal
  aborted,     \* options.signal.aborted
  stack,       \* the active frames of walk(), the root frame first
  visited,     \* the Set shared by all frames of the traversal
  yielded,     \* the entries delivered to the consumer, in order
  status,      \* of the generator: suspendedStart, running, suspendedYield, completed
  outcome,     \* how the generator completed: none, done, returned, threw
  unwind,      \* the completion travelling up the stack: none, throw, return
  err,         \* the error thrown, if any
  faults,      \* the I/O faults that occurred so far: <<operation, path, code>>
  opens,       \* every successful opendir so far: <<path, depth>>
  openHandles, \* the directory handles that are open (indexes into opens)
  progress,    \* the entries passed to options.onProgress, in order
  abortAt,     \* number of entries yielded when the signal was aborted (-1: never)
  abortWhen,   \* the status of the generator when the signal was aborted
  fin,         \* input of the filter functions under test
  fout,        \* their results
  other        \* a second traversal of the same program, while it is not the
               \* one that runs, and the number of traversals started again

walkVars == <<tree, opts, aborted, stack, visited, yielded, status, outcome,
              unwind, err, faults, opens, openHandles, progress, abortAt, abortWhen,
              other>>
vars == <<tree, opts, aborted, stack, visited, yielded, status, outcome,
          unwind, err, faults, opens, openHandles, progress, abortAt, abortWhen,
          fin, fout, other>>

NoError == [cls |-> "none", op |-> "none", path |-> <<>>, code |-> "none",
            injected |-> FALSE, at |-> 0, revisit |-> FALSE]

\* no second traversal
NoOther ==
  [live |-> FALSE, restarts |-> 0, stack |-> <<>>, visited |-> {}, yielded |-> <<>>,
   status |-> "none", outcome |-> "none", unwind |-> "none", err |-> NoError,
   faults |-> <<>>, opens |-> <<>>, openHandles |-> {}, progress |-> <<>>]

Front(s) == SubSeq(s, 1, Len(s) - 1)
Last(s) == s[Len(s)]

\* the directory that the file system resolves a path from the root to, every
\* symlink on the way replaced by its target
RECURSIVE Resolve(_)
Resolve(path) ==
  IF Len(path) = 1 THEN path
  ELSE LET parent == Resolve(Front(path))
           d == (CHOOSE d \in {tree[(parent)][i] : i \in 1..Len(tree[(parent)])} : d.name = (Last(path)))
       IN IF d.kind = "link" THEN d.target ELSE Append(parent, Last(path))

realpathKeepsLastLink(path) ==
  IF Len(path) = 1 THEN path ELSE joinPath(Resolve(Front(path)), Last(path))

\* fs.realpath(dirPath) at line 22, when it succeeds
realpath(path) == Resolve(path)

\* the dirents that a handle opened by fs.opendir(path) enumerates
Listing(path) == tree[Resolve(path)]

\* fs.stat(entryPath) follows links; it fails on a broken link
StatFails(dirent) == dirent.kind = "link" /\ dirent.target = <<>>
StatIsDirectory(dirent) ==
  \/ dirent.kind = "dir"
  \/ dirent.kind = "link" /\ dirent.target \in DOMAIN tree

\* ------------------------------------------------------------------ sorting
\* Array.prototype.sort with the comparator of sortEntries: an insertion of
\* each dirent in order (the names of one directory are distinct)
Before(a, b, sortType) ==
  IF sortType = "asc" THEN NameLess(a.name, b.name) ELSE NameLess(b.name, a.name)

RECURSIVE Insert(_, _, _)
Insert(d, sorted, sortType) ==
  IF sorted = <<>> THEN <<d>>
  ELSE IF Before(d, Head(sorted), sortType) THEN <<d>> \o sorted
  ELSE <<Head(sorted)>> \o Insert(d, Tail(sorted), sortType)

sortEntriesKeepsOrder(entries, sortType) == entries

RECURSIVE sortEntries(_, _)
sortEntries(entries, sortType) ==
  IF entries = <<>> THEN <<>>
  ELSE Insert(Head(entries), sortEntries(Tail(entries), sortType), sortType)

\* ------------------------------------------------------------------- frames
\* One record per active call of walk(dirPath, options, currentDepth, visited):
\* pc is the point of the code the call is at, handle the index in opens of
\* its dirHandle (0: none), pos the number of dirents read from the handle,
\* entries the array collected for sorting, idx the number of array elements
\* taken by the processing loop, cur the dirent being processed, isDir its
\* isDirectory, stats whether entry.stats is set.
NewFrame(path, depth) ==
  [path |-> path, depth |-> depth, pc |-> "entry", handle |-> 0, pos |-> 0,
   entries |-> <<>>, idx |-> 0, cur |-> NoDirent, isDir |-> FALSE, stats |-> FALSE]

Top == stack[Len(stack)]
At(pc) == (status = "running" /\ stack # <<>>) /\ Top.pc = pc
WithTop(f) == [stack EXCEPT ![Len(stack)] = f]

\* (the faults of a second traversal count)
CanFault ==
  Cardinality(({i \in 1..Len(faults) : faults[i].injected}))
    + Cardinality({i \in 1..Len(other.faults) : other.faults[i].injected}) < MaxFaults
\* at: the number of entries yielded before the fault; revisit: a realpath
\* that failed for a path that was in visited already
\* cls: the class of the error object; what fs.realpath, fs.opendir, a read
\* and fs.stat reject with is a plain Error carrying code and path
Fault(op, path, code) ==
  [cls |-> "Error", op |-> op, path |-> path, code |-> code, injected |-> TRUE,
   at |-> Len(yielded), revisit |-> (op = "realpath" /\ path \in visited)]
BrokenLink(op, path) ==
  [cls |-> "Error", op |-> op, path |-> path, code |-> "ENOENT", injected |-> FALSE,
   at |-> Len(yielded), revisit |-> FALSE]

\* the top frame returns normally: its caller, suspended in `yield* walk(...)`
\* at line 107, goes on with its loop; the root frame completes the generator
FrameReturns ==
  LET rest == Front(stack)
  IN /\ stack' = IF rest = <<>> THEN rest
                 ELSE [rest EXCEPT ![Len(rest)].pc = "loop",
                                   ![Len(rest)].cur = NoDirent,
                                   ![Len(rest)].isDir = FALSE,
                                   ![Len(rest)].stats = FALSE]
     /\ status' = IF rest = <<>> THEN "completed" ELSE status
     /\ outcome' = IF rest = <<>> THEN "done" ELSE outcome
     /\ unwind' = "none"
     /\ err' = err

\* the top frame throws e to its caller: the caller's `yield*` is inside its
\* try block, so its catch (lines 131-132) decides, then its finally runs
FrameThrows(e) ==
  LET rest == Front(stack)
  IN IF rest = <<>>
     THEN /\ stack' = rest
          /\ status' = "completed"
          /\ outcome' = "threw"
          /\ unwind' = "none"
          /\ err' = e
     ELSE /\ stack' = [rest EXCEPT ![Len(rest)].pc = "finally"]
          /\ status' = status
          /\ outcome' = outcome
          /\ unwind' = IF opts.suppressErrors THEN "none" ELSE "throw"
          /\ err' = IF opts.suppressErrors THEN err ELSE e

ThrowInTrySwallowed(f, e) ==
  /\ stack' = WithTop([f EXCEPT !.pc = "finally"])
  /\ UNCHANGED <<status, outcome, unwind, err>>

\* an I/O operation of frame f throws e inside f's own try block
ThrowInTry(f, e) ==
  /\ stack' = WithTop([f EXCEPT !.pc = "finally"])
  /\ unwind' = IF opts.suppressErrors THEN "none" ELSE "throw"
  /\ err' = IF opts.suppressErrors THEN err ELSE e
  /\ UNCHANGED <<status, outcome>>

\* `yield entry` at lines 99 and 122: the generator suspends
Yield(f) ==
  /\ stack' = WithTop([f EXCEPT !.pc = "resume"])
  /\ yielded' = Append(yielded, ([path |-> joinPath((f).path, (f).cur.name),
        depth |-> (f).depth, kind |-> (f).cur.kind, isDir |-> (f).isDir, stats |-> (f).stats]))
  /\ status' = "suspendedYield"

RecurseDeferred(f) ==
  Front(stack) \o <<NewFrame(joinPath(f.path, f.cur.name), f.depth + 1),
                    [f EXCEPT !.pc = "loop", !.cur = NoDirent]>>

\* `yield* walk(entryPath, options, currentDepth + 1, visited)` at line 107
Recurse(f) ==
  Append(WithTop([f EXCEPT !.pc = "child"]),
         NewFrame(joinPath(f.path, f.cur.name), f.depth + 1))

\* lines 85 and 106-107: the walker recurses into a directory whatever the
\* filters said of its name
DescendsIfIncluded(isDirectory, isIncluded) == isDirectory /\ isIncluded
Descends(isDirectory, isIncluded) == isDirectory

\* lines 83-129 for the dirent f.cur once f.isDir is known: filter, then
\* yield, stat, recurse or skip
ProcessEntry(f) ==
  LET isIncluded == applyFilters(f.cur.name, opts)
      wanted == IF f.isDir THEN opts.yieldDirectories /\ isIncluded ELSE isIncluded
  IN IF applyFiltersThrows(f.cur.name, opts)
     THEN ThrowInTry(f, ([cls |-> "TypeError", op |-> "match", path |-> <<>>, code |-> "none",
           injected |-> FALSE, at |-> Len(yielded), revisit |-> FALSE])) /\ UNCHANGED yielded
     ELSE IF wanted
     THEN IF opts.withStats
          THEN /\ stack' = WithTop([f EXCEPT !.pc = "stat"])
               /\ UNCHANGED <<yielded, status, unwind, err>>
          ELSE Yield(f) /\ UNCHANGED <<unwind, err>>
     ELSE /\ stack' = IF Descends(f.isDir, isIncluded) THEN Recurse(f)
                      ELSE WithTop([f EXCEPT !.pc = "loop", !.cur = NoDirent])
          /\ UNCHANGED <<yielded, status, unwind, err>>

AfterYieldNoDescend(f) ==
  WithTop([f EXCEPT !.pc = "loop", !.cur = NoDirent, !.stats = FALSE])

\* what follows `yield entry` when the generator is resumed (lines 101-107
\* and 124-129): a yielded directory is descended into, a file ends the
\* iteration of the loop
AfterYield(f) ==
  IF f.isDir THEN Recurse(f)
  ELSE WithTop([f EXCEPT !.pc = "loop", !.cur = NoDirent, !.stats = FALSE])

\* ----------------------------------------------------------------- consumer
\* the consumer's for-await loop asks for the next entry
Pull ==
  /\ status \in {"suspendedStart", "suspendedYield"}
  /\ status' = "running"
  /\ IF status = "suspendedYield"
     THEN /\ progress' = IF opts.onProgress
                         THEN Append(progress, yielded[Len(yielded)])
                         ELSE progress
          /\ stack' = AfterYield(Top)
     ELSE UNCHANGED <<progress, stack>>
  /\ UNCHANGED <<tree, opts, aborted, visited, yielded, outcome, unwind, err,
                 faults, opens, openHandles, abortAt, abortWhen, fin, fout, other>>

\* the consumer breaks out of its loop: return() resumes the generator at
\* the yield with a return completion, which runs the finally blocks
ConsumerBreak ==
  /\ status = "suspendedYield"
  /\ status' = "running"
  /\ unwind' = "return"
  /\ stack' = WithTop([Top EXCEPT !.pc = "finally"])
  /\ UNCHANGED <<tree, opts, aborted, visited, yielded, outcome, err, faults,
                 opens, openHandles, progress, abortAt, abortWhen, fin, fout, other>>

\* somebody calls controller.abort()
Abort ==
  /\ opts.signal
  /\ ~aborted
  /\ status # "completed"
  /\ aborted' = TRUE
  /\ abortAt' = Len(yielded)
  /\ abortWhen' = status
  /\ UNCHANGED <<tree, opts, stack, visited, yielded, status, outcome, unwind,
                 err, faults, opens, openHandles, progress, fin, fout, other>>

\* ------------------------------------------------------------------- walk()
AbortedAtEntryIgnored == FALSE
AbortedInLoopIgnored == FALSE

\* `options.signal?.aborted` at line 14, at line 54 and at line 67
AbortedAtEntry == opts.signal /\ aborted
AbortedInCollect == opts.signal /\ aborted
AbortedInLoop == opts.signal /\ aborted

DepthExceededOffByOne(currentDepth, maxDepth) == currentDepth > maxDepth + 1

\* `currentDepth > options.maxDepth` at line 17
DepthExceeded(currentDepth, maxDepth) == currentDepth > maxDepth

CollectsEntriesAlways == TRUE

\* `if (options.sort)` at line 50: the entries are collected into an array
CollectsEntries == opts.sort # "null"

OpendirRethrowsAlways == TRUE

\* `if (!options.suppressErrors) throw err` at line 42
OpendirRethrows == ~opts.suppressErrors

CloseHandleSkipped(handles, h) == handles

\* `await dirHandle.close()` at lines 136-142
CloseHandle(handles, h) == handles \ {h}

\* lines 13-20: abort check, depth check, then realpath or opendir
Enter ==
  /\ At("entry")
  /\ IF AbortedAtEntry \/ DepthExceeded(Top.depth, opts.maxDepth)
     THEN FrameReturns
     ELSE /\ stack' = WithTop([Top EXCEPT !.pc = IF opts.followSymlinks
                                                 THEN "realpath" ELSE "opendir"])
          /\ UNCHANGED <<status, outcome, unwind, err>>
  /\ UNCHANGED <<tree, opts, aborted, visited, yielded, faults, opens,
                 openHandles, progress, abortAt, abortWhen, fin, fout, other>>

RealpathOkRevisits ==
  /\ At("realpath")
  /\ visited' = visited \cup {realpath(Top.path)}
  /\ stack' = WithTop([Top EXCEPT !.pc = "opendir"])
  /\ UNCHANGED <<status, outcome, unwind, err>>
  /\ UNCHANGED <<tree, opts, aborted, yielded, faults, opens, openHandles,
                 progress, abortAt, abortWhen, fin, fout, other>>

\* lines 21-24: realpath succeeded
RealpathOk ==
  /\ At("realpath")
  /\ LET realPath == realpath(Top.path)
     IN IF realPath \in visited
        THEN FrameReturns /\ UNCHANGED visited
        ELSE /\ visited' = visited \cup {realPath}
             /\ stack' = WithTop([Top EXCEPT !.pc = "opendir"])
             /\ UNCHANGED <<status, outcome, unwind, err>>
  /\ UNCHANGED <<tree, opts, aborted, yielded, faults, opens, openHandles,
                 progress, abortAt, abortWhen, fin, fout, other>>

\* lines 25-33: realpath failed
RealpathFails ==
  /\ At("realpath")
  /\ CanFault
  /\ \E code \in ({"EACCES", "ENOENT"}) :
       LET e == Fault("realpath", Top.path, code)
       IN /\ faults' = Append(faults, e)
          /\ IF Top.path \in visited
             THEN FrameReturns /\ UNCHANGED visited
             ELSE /\ visited' = visited \cup {Top.path}
                  /\ IF ~opts.suppressErrors
                     THEN FrameThrows(e)
                     ELSE /\ stack' = WithTop([Top EXCEPT !.pc = "opendir"])
                          /\ UNCHANGED <<status, outcome, unwind, err>>
  /\ UNCHANGED <<tree, opts, aborted, yielded, opens, openHandles, progress,
                 abortAt, abortWhen, fin, fout, other>>

\* lines 25-33 where fs.realpath cannot resolve any path: it rejects for
\* every directory, whatever faults the environment has left
RealpathUnresolvable ==
  /\ At("realpath")
  /\ LET e == [cls |-> "Error", op |-> "realpath", path |-> Top.path,
               code |-> "EACCES", injected |-> FALSE, at |-> Len(yielded),
               revisit |-> (Top.path \in visited)]
     IN /\ faults' = Append(faults, e)
        /\ IF Top.path \in visited
           THEN FrameReturns /\ UNCHANGED visited
           ELSE /\ visited' = visited \cup {Top.path}
                /\ IF ~opts.suppressErrors
                   THEN FrameThrows(e)
                   ELSE /\ stack' = WithTop([Top EXCEPT !.pc = "opendir"])
                        /\ UNCHANGED <<status, outcome, unwind, err>>
  /\ UNCHANGED <<tree, opts, aborted, yielded, opens, openHandles, progress,
                 abortAt, abortWhen, fin, fout, other>>

\* lines 36-40: opendir succeeded
OpendirOk ==
  /\ At("opendir")
  /\ opens' = Append(opens, <<Top.path, Top.depth>>)
  /\ openHandles' = openHandles \cup {Len(opens) + 1}
  /\ stack' = WithTop([Top EXCEPT !.handle = Len(opens) + 1,
                                  !.pc = IF CollectsEntries THEN "collect" ELSE "loop"])
  /\ UNCHANGED <<tree, opts, aborted, visited, yielded, status, outcome, unwind,
                 err, faults, progress, abortAt, abortWhen, fin, fout, other>>

\* lines 41-44: opendir failed
OpendirFails ==
  /\ At("opendir")
  /\ CanFault
  /\ \E code \in ({"EACCES", "ENOENT"}) :
       LET e == Fault("opendir", Top.path, code)
       IN /\ faults' = Append(faults, e)
          /\ IF OpendirRethrows THEN FrameThrows(e) ELSE FrameReturns
  /\ UNCHANGED <<tree, opts, aborted, visited, yielded, opens, openHandles,
                 progress, abortAt, abortWhen, fin, fout, other>>

\* lines 53-57: one read of the collecting loop, then the abort check; at the
\* end of the directory, or on abort, the array is sorted
Collect ==
  /\ At("collect")
  /\ LET f == Top
         list == Listing(f.path)
     IN IF f.pos < Len(list)
        THEN IF AbortedInCollect
             THEN stack' = WithTop([f EXCEPT !.pos = f.pos + 1, !.pc = "loop",
                                             !.entries = sortEntries(f.entries, opts.sort)])
             ELSE stack' = WithTop([f EXCEPT !.pos = f.pos + 1,
                                             !.entries = Append(f.entries, list[f.pos + 1])])
        ELSE stack' = WithTop([f EXCEPT !.pc = "loop",
                                        !.entries = sortEntries(f.entries, opts.sort)])
  /\ UNCHANGED <<tree, opts, aborted, visited, yielded, status, outcome, unwind,
                 err, faults, opens, openHandles, progress, abortAt, abortWhen, fin, fout, other>>

\* line 74: the stat that classifies a symlink is made only with followSymlinks
FollowsLinkAlways(d) == d.kind = "link"
FollowsLink(d) == d.kind = "link" /\ opts.followSymlinks

\* lines 66-81: the processing loop takes its next dirent (from the array, or
\* by a read of the handle), checks the signal and classifies the dirent
LoopNext ==
  /\ At("loop")
  /\ LET f == Top
         sorted == CollectsEntries
         list == IF sorted THEN f.entries ELSE Listing(f.path)
         at == IF sorted THEN f.idx ELSE f.pos
     IN IF at >= Len(list) \/ AbortedInLoop
        THEN /\ stack' = WithTop([f EXCEPT !.pc = "finally",
                                           !.pos = IF ~sorted /\ at < Len(list)
                                                   THEN f.pos + 1 ELSE f.pos])
             /\ UNCHANGED <<yielded, status, unwind, err>>
        ELSE LET d == list[at + 1]
                 g == [f EXCEPT !.cur = d, !.isDir = (d.kind = "dir"), !.stats = FALSE,
                                !.idx = IF sorted THEN f.idx + 1 ELSE f.idx,
                                !.pos = IF sorted THEN f.pos ELSE f.pos + 1]
             IN IF FollowsLink(d)
                THEN /\ stack' = WithTop([g EXCEPT !.pc = "classify"])
                     /\ UNCHANGED <<yielded, status, unwind, err>>
                ELSE ProcessEntry(g)
  /\ UNCHANGED <<tree, opts, aborted, visited, outcome, faults,
                 opens, openHandles, progress, abortAt, abortWhen, fin, fout, other>>

\* a read of the directory handle fails, in the collecting loop (line 53) or
\* in the streaming loop (line 66): the error is thrown inside the try block
ReadFails ==
  /\ At("collect") \/ (At("loop") /\ ~CollectsEntries)
  /\ CanFault
  /\ \E code \in ({"EACCES", "ENOENT"}) :
       LET e == Fault("read", Top.path, code)
       IN /\ faults' = Append(faults, e)
          /\ ThrowInTry(Top, e)
  /\ UNCHANGED <<tree, opts, aborted, visited, yielded, opens, openHandles,
                 progress, abortAt, abortWhen, fin, fout, other>>

\* lines 74-81: fs.stat of a symlink that is followed; every failure, a
\* broken link included, is caught and makes the entry a non-directory
Classify ==
  /\ At("classify")
  /\ \E failed \in BOOLEAN :
       /\ failed => CanFault \/ StatFails(Top.cur)
       /\ ~failed => ~StatFails(Top.cur)
       /\ LET entryPath == joinPath(Top.path, Top.cur.name)
          IN faults' = IF ~failed THEN faults
                       ELSE IF StatFails(Top.cur) THEN Append(faults, BrokenLink("stat", entryPath))
                       ELSE Append(faults, Fault("stat", entryPath, "EACCES"))
       /\ ProcessEntry([Top EXCEPT !.isDir = ~failed /\ StatIsDirectory(Top.cur)])
  /\ UNCHANGED <<tree, opts, aborted, visited, outcome, opens,
                 openHandles, progress, abortAt, abortWhen, fin, fout, other>>

\* lines 91-99 and 114-122: entry.stats = await fs.stat(entryPath), then yield
StatEntry ==
  /\ At("stat")
  /\ ~StatFails(Top.cur)
  /\ Yield([Top EXCEPT !.stats = TRUE])
  /\ UNCHANGED <<tree, opts, aborted, visited, outcome, unwind, err, faults,
                 opens, openHandles, progress, abortAt, abortWhen, fin, fout, other>>

StatEntryFailsSwallowed ==
  /\ At("stat")
  /\ CanFault \/ StatFails(Top.cur)
  /\ LET entryPath == joinPath(Top.path, Top.cur.name)
         e == IF StatFails(Top.cur) THEN BrokenLink("entrystat", entryPath)
              ELSE Fault("entrystat", entryPath, "EACCES")
     IN /\ faults' = Append(faults, e)
        /\ Yield(Top) /\ UNCHANGED <<outcome, unwind, err>>
  /\ UNCHANGED <<tree, opts, aborted, visited, opens, openHandles, progress,
                 abortAt, abortWhen, fin, fout, other>>

\* lines 94-96 and 117-119: that stat failed
StatEntryFails ==
  /\ At("stat")
  /\ CanFault \/ StatFails(Top.cur)
  /\ LET entryPath == joinPath(Top.path, Top.cur.name)
         e == IF StatFails(Top.cur) THEN BrokenLink("entrystat", entryPath)
              ELSE Fault("entrystat", entryPath, "EACCES")
     IN /\ faults' = Append(faults, e)
        /\ IF ~opts.suppressErrors
           THEN ThrowInTry(Top, e) /\ UNCHANGED yielded
           ELSE Yield(Top) /\ UNCHANGED <<outcome, unwind, err>>
  /\ UNCHANGED <<tree, opts, aborted, visited, opens, openHandles, progress,
                 abortAt, abortWhen, fin, fout, other>>

\* lines 133-143: the finally block closes the handle, then the frame
\* completes the way it was left: normally, by the error, or by return()
Finally ==
  /\ At("finally")
  /\ openHandles' = CloseHandle(openHandles, Top.handle)
  /\ IF unwind = "throw" THEN FrameThrows(err)
     ELSE IF unwind = "return"
     THEN LET rest == Front(stack)
          IN /\ stack' = IF rest = <<>> THEN rest
                         ELSE [rest EXCEPT ![Len(rest)].pc = "finally"]
             /\ status' = IF rest = <<>> THEN "completed" ELSE status
             /\ outcome' = IF rest = <<>> THEN "returned" ELSE outcome
             /\ unwind' = IF rest = <<>> THEN "none" ELSE unwind
             /\ err' = err
     ELSE FrameReturns
  /\ UNCHANGED <<tree, opts, aborted, visited, yielded, faults, opens, progress,
                 abortAt, abortWhen, fin, fout, other>>

\* --------------------------------------------------------- the traversal
NoInput == [fn |-> "none", name |-> <<>>, include |-> NullRule, exclude |-> NullRule,
            ginclude |-> ([present |-> FALSE, patterns |-> <<>>]),
                  gexclude |-> ([present |-> FALSE, patterns |-> <<>>]),
            gopts |-> [dot |-> FALSE, nocase |-> FALSE, matchBase |-> FALSE]]
NoOutput == [done |-> FALSE, value |-> FALSE, threw |-> FALSE]

\* DEFAULT_OPTIONS (signal: whether an AbortSignal is configured)
DEFAULT_OPTIONS ==
  [maxDepth |-> Infinity, include |-> NullRule, exclude |-> NullRule,
   yieldDirectories |-> FALSE, followSymlinks |-> FALSE, suppressErrors |-> TRUE,
   signal |-> FALSE, sort |-> "null", onProgress |-> FALSE, withStats |-> FALSE]

\* sanitizeOptions(opts) = { ...DEFAULT_OPTIONS, ...opts } for the valid opts
\* that set at most MaxOptionsSet options
Options ==
  {o \in ([maxDepth : {0, 1, Infinity}, include : ({NullRule, FunctionRule({<<"a">>, <<"c",
        "a">>, <<"d">>, <<"f">>, <<"g">>, <<"l">>})}), exclude : ({NullRule,
        StringRule(<<"a">>)}), yieldDirectories : BOOLEAN, followSymlinks : BOOLEAN,
        suppressErrors : BOOLEAN, signal : BOOLEAN, sort : {"null", "asc", "desc"},
        onProgress : BOOLEAN, withStats : BOOLEAN]) :
     Cardinality({k \in DOMAIN o : o[k] # DEFAULT_OPTIONS[k]}) <= MaxOptionsSet}

\* streamWalker(dirPath, options): walk(dirPath, finalOptions) with
\* currentDepth = 0 and a new, empty visited set; nothing runs before the
\* first pull
Init ==
  /\ tree \in ({TreePlain, TreeCycle, TreeLinks})
  /\ opts \in Options
  /\ aborted = FALSE
  /\ stack = <<NewFrame(Root, 0)>>
  /\ visited = {}
  /\ yielded = <<>>
  /\ status = "suspendedStart"
  /\ outcome = "none"
  /\ unwind = "none"
  /\ err = NoError
  /\ faults = <<>>
  /\ opens = <<>>
  /\ openHandles = {}
  /\ progress = <<>>
  /\ abortAt = -1
  /\ abortWhen = "never"
  /\ fin = NoInput
  /\ fout = NoOutput
  /\ other = NoOther

Next ==
  \/ Pull
  \/ ConsumerBreak
  \/ Abort
  \/ Enter
  \/ RealpathOk
  \/ RealpathFails
  \/ OpendirOk
  \/ OpendirFails
  \/ Collect
  \/ LoopNext
  \/ ReadFails
  \/ Classify
  \/ StatEntry
  \/ StatEntryFails
  \/ Finally

Spec == Init /\ [][Next]_vars

\* The traversals that are given an AbortSignal (and no filter and no
\* progress callback, which play no part in cancellation), with a generator
\* that runs on whenever it has been resumed and a consumer whose for-await
\* loop pulls until it is done.
AbortInit ==
  /\ Init
  /\ tree = TreeLinks
  /\ opts.signal
  /\ opts.include = NullRule /\ opts.exclude = NullRule
  /\ ~opts.onProgress

AbortSpec == AbortInit /\ [][Next]_vars /\ WF_vars(Next)

OddRuleOptions ==
  {o \in [maxDepth : {0, 1, Infinity},
          include : ({NullRule, StringRule(<<>>), NumberRule(0), NumberRule(1),
                BooleanRule(FALSE), ([type |-> "object"])}),
          exclude : ({NullRule, StringRule(<<>>), NumberRule(1)}),
          yieldDirectories : BOOLEAN,
          followSymlinks : BOOLEAN,
          suppressErrors : BOOLEAN,
          signal : BOOLEAN,
          sort : {"null", "asc", "desc"},
          onProgress : BOOLEAN,
          withStats : BOOLEAN] :
     /\ o.include # NullRule \/ o.exclude # NullRule
     /\ Cardinality({k \in DOMAIN o : o[k] # DEFAULT_OPTIONS[k]}) <= MaxOptionsSet}

\* The traversals with a filter rule that is none of the four kinds.
OddRuleInit ==
  /\ tree = TreeLinks
  /\ opts \in OddRuleOptions
  /\ aborted = FALSE
  /\ stack = <<NewFrame(Root, 0)>>
  /\ visited = {}
  /\ yielded = <<>>
  /\ status = "suspendedStart"
  /\ outcome = "none"
  /\ unwind = "none"
  /\ err = NoError
  /\ faults = <<>>
  /\ opens = <<>>
  /\ openHandles = {}
  /\ progress = <<>>
  /\ abortAt = -1
  /\ abortWhen = "never"
  /\ fin = NoInput
  /\ fout = NoOutput
  /\ other = NoOther

OddRuleSpec == OddRuleInit /\ [][Next]_vars

\* The traversal of the tree with symlink cycles, followSymlinks = true and
\* suppressErrors = true (and no filter and no progress callback).  The
\* generator runs on whenever it has been resumed, and the consumer's
\* for-await loop pulls until it is done.
CycleInit ==
  /\ Init
  /\ tree = TreeCycle
  /\ opts.followSymlinks
  /\ opts.suppressErrors
  /\ opts.include = NullRule /\ opts.exclude = NullRule
  /\ ~opts.onProgress

CycleSpec == CycleInit /\ [][Next]_vars /\ WF_vars(Next)

\* The traversals of the tree with the symlink cycles, with followSymlinks,
\* on a system where fs.realpath fails for every path.  The depth limit is
\* MaxDescent instead of Infinity.
UnresolvableInit ==
  /\ tree = TreeCycle
  /\ opts \in (LET o == [DEFAULT_OPTIONS EXCEPT !.followSymlinks = TRUE,
        !.maxDepth = MaxDescent] IN {o, [o EXCEPT !.suppressErrors = FALSE],
        [o EXCEPT !.sort = "asc"], [o EXCEPT !.signal = TRUE], [o EXCEPT !.withStats = TRUE]})
  /\ aborted = FALSE
  /\ stack = <<NewFrame(Root, 0)>>
  /\ visited = {}
  /\ yielded = <<>>
  /\ status = "suspendedStart"
  /\ outcome = "none"
  /\ unwind = "none"
  /\ err = NoError
  /\ faults = <<>>
  /\ opens = <<>>
  /\ openHandles = {}
  /\ progress = <<>>
  /\ abortAt = -1
  /\ abortWhen = "never"
  /\ fin = NoInput
  /\ fout = NoOutput
  /\ other = NoOther

UnresolvableNext ==
  \/ Pull
  \/ ConsumerBreak
  \/ Abort
  \/ Enter
  \/ RealpathUnresolvable
  \/ OpendirOk
  \/ OpendirFails
  \/ Collect
  \/ LoopNext
  \/ ReadFails
  \/ Classify
  \/ StatEntry
  \/ StatEntryFails
  \/ Finally

UnresolvableSpec == UnresolvableInit /\ [][UnresolvableNext]_vars

\* ------------------------------------------------ symlinks left unfollowed
\* The traversals with followSymlinks = false, the default, of the trees
\* (two of them hold symlinks, one of them cycles).  The generator runs on
\* whenever it has been resumed, and the consumer's for-await loop pulls
\* until it is done or breaks out.  The steps of lines 21-34 and 74-81 stand
\* under `options.followSymlinks` and are no steps of these traversals.
NoFollowInit ==
  /\ Init
  /\ ~opts.followSymlinks

NoFollowNext ==
  \/ Pull
  \/ ConsumerBreak
  \/ Abort
  \/ Enter
  \/ OpendirOk
  \/ OpendirFails
  \/ Collect
  \/ LoopNext
  \/ ReadFails
  \/ StatEntry
  \/ StatEntryFails
  \/ Finally

NoFollowSpec == NoFollowInit /\ [][NoFollowNext]_vars /\ WF_vars(NoFollowNext)

\* --------------------------------------------- caller-supplied code throws
CallbackFaults == {k \in 1..Len(faults) : faults[k].op \in ({"filter", "sort", "onProgress"})}

\* line 83: applyFilters calls the predicate of exclude, and that of include
\* unless exclude matched, and the predicate throws
FilterThrows ==
  /\ At("loop")
  /\ CanFault
  /\ LET f == Top
         sorted == CollectsEntries
         list == IF sorted THEN f.entries ELSE Listing(f.path)
         at == IF sorted THEN f.idx ELSE f.pos
     IN /\ at < Len(list) /\ ~AbortedInLoop
        /\ LET d == list[at + 1]
                g == [f EXCEPT !.cur = d, !.isDir = (d.kind = "dir"), !.stats = FALSE,
                               !.idx = IF sorted THEN f.idx + 1 ELSE f.idx,
                               !.pos = IF sorted THEN f.pos ELSE f.pos + 1]
                e == Fault("filter", f.path, "none")
            IN /\ ~FollowsLink(d)
               /\ \/ opts.exclude.type = "function"
                  \/ /\ opts.include.type = "function"
                     /\ ~(Truthy(opts.exclude) /\ match(d.name, opts.exclude))
               /\ faults' = Append(faults, e)
               /\ ThrowInTry(g, e)
  /\ UNCHANGED <<tree, opts, aborted, visited, yielded, opens, openHandles,
                 progress, abortAt, abortWhen, fin, fout, other>>

\* line 56: the collecting loop has ended, at the end of the directory or by
\* the break of line 54, and the comparator, which Array.prototype.sort
\* calls when the array holds two dirents or more, throws
ComparatorThrows ==
  /\ At("collect")
  /\ CanFault
  /\ opts.sort = "custom"
  /\ LET f == Top
         list == Listing(f.path)
         e == Fault("sort", f.path, "none")
     IN /\ f.pos >= Len(list) \/ AbortedInCollect
        /\ Len(f.entries) >= 2
        /\ faults' = Append(faults, e)
        /\ ThrowInTry([f EXCEPT !.pos = IF f.pos < Len(list) THEN f.pos + 1 ELSE f.pos], e)
  /\ UNCHANGED <<tree, opts, aborted, visited, yielded, opens, openHandles,
                 progress, abortAt, abortWhen, fin, fout, other>>

ProgressThrowsEscapes ==
  /\ status = "suspendedYield"
  /\ opts.onProgress
  /\ CanFault
  /\ LET e == Fault("onProgress", Top.path, "none")
     IN /\ status' = "running"
        /\ progress' = Append(progress, yielded[Len(yielded)])
        /\ faults' = Append(faults, e)
        /\ stack' = WithTop([Top EXCEPT !.pc = "finally"])
        /\ unwind' = "throw"
        /\ err' = e
  /\ UNCHANGED <<tree, opts, aborted, visited, yielded, outcome, opens,
                 openHandles, abortAt, abortWhen, fin, fout, other>>

\* lines 102-104 and 125-127: the consumer pulls, the generator resumes
\* after `yield entry` and calls options.onProgress(entry), which throws
ProgressThrows ==
  /\ status = "suspendedYield"
  /\ opts.onProgress
  /\ CanFault
  /\ LET e == Fault("onProgress", Top.path, "none")
     IN /\ status' = "running"
        /\ progress' = Append(progress, yielded[Len(yielded)])
        /\ faults' = Append(faults, e)
        /\ stack' = WithTop([Top EXCEPT !.pc = "finally"])
        /\ unwind' = IF opts.suppressErrors THEN "none" ELSE "throw"
        /\ err' = IF opts.suppressErrors THEN err ELSE e
  /\ UNCHANGED <<tree, opts, aborted, visited, yielded, outcome, opens,
                 openHandles, abortAt, abortWhen, fin, fout, other>>

\* The traversals of the plain tree with one caller-supplied function: a
\* predicate as include rule, a comparator (which, when it does not throw,
\* compares the names in reverse), or a progress callback; and one more
\* option or none.
CallbackInit ==
  /\ tree = TreePlain
  /\ opts \in (LET o == DEFAULT_OPTIONS withFunction == {[o EXCEPT !.include = FunctionRule({<<"a">>, <<"c", "a">>, <<"f">>})], [o EXCEPT !.sort = "custom"], [o EXCEPT !.onProgress = TRUE]} IN UNION {{p, [p EXCEPT !.suppressErrors = FALSE], [p EXCEPT !.yieldDirectories = TRUE], [p EXCEPT !.signal = TRUE], [p EXCEPT !.withStats = TRUE]} : p \in withFunction})
  /\ aborted = FALSE
  /\ stack = <<NewFrame(Root, 0)>>
  /\ visited = {}
  /\ yielded = <<>>
  /\ status = "suspendedStart"
  /\ outcome = "none"
  /\ unwind = "none"
  /\ err = NoError
  /\ faults = <<>>
  /\ opens = <<>>
  /\ openHandles = {}
  /\ progress = <<>>
  /\ abortAt = -1
  /\ abortWhen = "never"
  /\ fin = NoInput
  /\ fout = NoOutput
  /\ other = NoOther

CallbackNext == NoFollowNext \/ FilterThrows \/ ComparatorThrows \/ ProgressThrows

CallbackSpec == CallbackInit /\ [][CallbackNext]_vars

\* ------------------------------------------- directories that fail a filter

\* The traversals with the exclude rule 'd', the name of a directory of each
\* of the trees, and the other options as before.
PruneInit ==
  /\ tree \in ({TreePlain, TreeCycle, TreeLinks})
  /\ opts \in ({[o EXCEPT !.exclude = (StringRule(<<"d">>))] : o \in {p \in Options : p.exclude = NullRule}})
  /\ aborted = FALSE
  /\ stack = <<NewFrame(Root, 0)>>
  /\ visited = {}
  /\ yielded = <<>>
  /\ status = "suspendedStart"
  /\ outcome = "none"
  /\ unwind = "none"
  /\ err = NoError
  /\ faults = <<>>
  /\ opens = <<>>
  /\ openHandles = {}
  /\ progress = <<>>
  /\ abortAt = -1
  /\ abortWhen = "never"
  /\ fin = NoInput
  /\ fout = NoOutput
  /\ other = NoOther

PruneSpec == PruneInit /\ [][Next]_vars

\* ------------------------------------------------- two traversals at a time

OwnSetShared(saved, running) == running

\* the set that a traversal finds when it goes on: the one it was given at
\* line 12 and passes down at line 107 (saved), not the one of the
\* traversal that ran in between (running)
OwnSet(saved, running) == saved

\* The event loop turns to the other traversal: the one that ran stays as it
\* is, at an await or at its yield, and the other one goes on from where it
\* was.
Switch ==
  /\ other.live
  /\ stack' = other.stack
  /\ visited' = OwnSet(other.visited, visited)
  /\ yielded' = other.yielded
  /\ status' = other.status
  /\ outcome' = other.outcome
  /\ unwind' = other.unwind
  /\ err' = other.err
  /\ faults' = other.faults
  /\ opens' = other.opens
  /\ openHandles' = other.openHandles
  /\ progress' = other.progress
  /\ other' = [other EXCEPT !.stack = stack, !.visited = visited, !.yielded = yielded,
                            !.status = status, !.outcome = outcome, !.unwind = unwind,
                            !.err = err, !.faults = faults, !.opens = opens,
                            !.openHandles = openHandles, !.progress = progress]
  /\ UNCHANGED <<tree, opts, aborted, abortAt, abortWhen, fin, fout>>

\* streamWalker(dirPath, options) is called again, with the same arguments,
\* after the traversal has ended: run to its end, thrown, or abandoned by
\* the consumer's break
Reinvoke ==
  /\ status = "completed"
  /\ other.restarts < MaxRestarts
  /\ stack' = <<NewFrame(Root, 0)>>
  /\ visited' = ({})
  /\ yielded' = <<>>
  /\ status' = "suspendedStart"
  /\ outcome' = "none"
  /\ unwind' = "none"
  /\ err' = NoError
  /\ faults' = <<>>
  /\ opens' = <<>>
  /\ openHandles' = {}
  /\ progress' = <<>>
  /\ other' = [other EXCEPT !.restarts = other.restarts + 1]
  /\ UNCHANGED <<tree, opts, aborted, abortAt, abortWhen, fin, fout>>

\* Two calls of streamWalker on the smallest cycle (the link r/l -> r, and one
\* file), with followSymlinks and the same options, their consumers pulling
\* in any order; each call evaluates `visited = new Set()` (line 12).
PairInit ==
  /\ tree = ((Root :> << Link(<<"l">>, Root), File(<<"f">>) >>))
  /\ opts \in (LET o == [DEFAULT_OPTIONS EXCEPT !.followSymlinks = TRUE] IN {o,
        [o EXCEPT !.suppressErrors = FALSE], [o EXCEPT !.sort = "asc"],
        [o EXCEPT !.signal = TRUE], [o EXCEPT !.withStats = TRUE]})
  /\ aborted = FALSE
  /\ stack = <<NewFrame(Root, 0)>>
  /\ visited = ({})
  /\ yielded = <<>>
  /\ status = "suspendedStart"
  /\ outcome = "none"
  /\ unwind = "none"
  /\ err = NoError
  /\ faults = <<>>
  /\ opens = <<>>
  /\ openHandles = {}
  /\ progress = <<>>
  /\ abortAt = -1
  /\ abortWhen = "never"
  /\ fin = NoInput
  /\ fout = NoOutput
  /\ other = [NoOther EXCEPT !.live = TRUE, !.stack = <<NewFrame(Root, 0)>>,
                             !.visited = ({}), !.status = "suspendedStart"]

PairNext == Next \/ Switch \/ Reinvoke

PairSpec == PairInit /\ [][PairNext]_vars

\* The traversals with a sort order, of the example tree in every order of
\* enumeration and of the tree with the cycles.
SortInit ==
  /\ tree \in (Reordered(TreeExample) \cup {TreeCycle})
  /\ opts \in {o \in Options : o.sort # "null"}
  /\ aborted = FALSE
  /\ stack = <<NewFrame(Root, 0)>>
  /\ visited = {}
  /\ yielded = <<>>
  /\ status = "suspendedStart"
  /\ outcome = "none"
  /\ unwind = "none"
  /\ err = NoError
  /\ faults = <<>>
  /\ opens = <<>>
  /\ openHandles = {}
  /\ progress = <<>>
  /\ abortAt = -1
  /\ abortWhen = "never"
  /\ fin = NoInput
  /\ fout = NoOutput
  /\ other = NoOther

SortSpec == SortInit /\ [][Next]_vars

\* ------------------------------------------------- the filters on their own
FilterRules ==
  {NullRule, StringRule(<<"a">>), StringRule(<<"a", "b">>),
   ([type |-> "regexp", pat |-> <<>>, accepts |-> ({<<"a">>, <<"c">>})]), FunctionRule({<<"b">>,
         <<"b", "a">>}),
   FunctionRule({})}

\* applyFilters() and the filter of createGlobFilter() are called with a name
FilterInit ==
  /\ tree = TreePlain
  /\ opts = CHOOSE o \in Options : TRUE
  /\ aborted = FALSE
  /\ stack = <<>>
  /\ visited = {}
  /\ yielded = <<>>
  /\ status = "completed"
  /\ outcome = "none"
  /\ unwind = "none"
  /\ err = NoError
  /\ faults = <<>>
  /\ opens = <<>>
  /\ openHandles = {}
  /\ progress = <<>>
  /\ abortAt = -1
  /\ abortWhen = "never"
  /\ fin \in ({[NoInput EXCEPT !.fn = "applyFilters", !.name = n, !.include = i,
        !.exclude = e] : n \in ({<<"a">>, <<"b">>, <<"a", "b">>, <<"b", "a">>, <<"c">>}),
        i \in FilterRules, e \in FilterRules} \cup {[NoInput EXCEPT !.fn = "createGlobFilter",
        !.name = x[1], !.ginclude = x[2], !.gexclude = x[3], !.gopts = x[4]] : x \in ({<<"a">>,
        <<"b">>, <<".", "a">>, <<"d", "/", "a">>, <<"d", "/", ".", "a">>, <<"d", "/", "b">>,
        <<"A">>}) \X ({([present |-> FALSE, patterns |-> <<>>]), Globs(<<>>),
        Globs(<< <<"a">> >>), Globs(<< <<"*">> >>), Globs(<< <<"*", "*", "/", "a">> >>),
        Globs(<< <<".", "a">>, <<"d", "/", "?">> >>), Globs(<< <<"*", "*">> >>)})
        \X ({([present |-> FALSE, patterns |-> <<>>]), Globs(<<>>), Globs(<< <<"a">> >>),
        Globs(<< <<"*">> >>), Globs(<< <<"*", "*", "/", "a">> >>), Globs(<< <<".", "a">>, <<"d",
        "/", "?">> >>), Globs(<< <<"*", "*">> >>)}) \X ([dot : BOOLEAN, nocase : BOOLEAN,
        matchBase : BOOLEAN])})
  /\ fout = NoOutput
  /\ other = NoOther

\* applyFilters(fin.name, {include: fin.include, exclude: fin.exclude})
CallApplyFilters ==
  /\ fin.fn = "applyFilters"
  /\ ~fout.done
  /\ fout' = [done |-> TRUE, value |-> applyFilters(fin.name, fin), threw |-> FALSE]
  /\ UNCHANGED <<walkVars, fin>>

\* createGlobFilter(fin.ginclude, fin.gexclude, fin.gopts)(fin.name)
CallGlobFilter ==
  /\ fin.fn = "createGlobFilter"
  /\ ~fout.done
  /\ fout' = [done |-> TRUE,
              value |-> createGlobFilter(fin.ginclude, fin.gexclude, fin.gopts, fin.name),
              threw |-> FALSE]
  /\ UNCHANGED <<walkVars, fin>>

FilterNext == CallApplyFilters \/ CallGlobFilter

FilterSpec == FilterInit /\ [][FilterNext]_vars

\* ------------------------------------------------------- match() on its own

\* the state of a program that calls one of the functions of the library on
\* the input `input` and runs no traversal
CallInit(input) ==
  /\ tree = TreePlain
  /\ opts = DEFAULT_OPTIONS
  /\ aborted = FALSE
  /\ stack = <<>>
  /\ visited = {}
  /\ yielded = <<>>
  /\ status = "completed"
  /\ outcome = "none"
  /\ unwind = "none"
  /\ err = NoError
  /\ faults = <<>>
  /\ opens = <<>>
  /\ openHandles = {}
  /\ progress = <<>>
  /\ abortAt = -1
  /\ abortWhen = "never"
  /\ fin = input
  /\ fout = NoOutput
  /\ other = NoOther

\* match() is called with a name and a rule, or a value that is no rule
MatchInit == \E input \in ({[NoInput EXCEPT !.fn = "match", !.name = n,
      !.include = p] : n \in ({<<"a">>, <<"b">>, <<"a", "b">>, <<"b", "a">>, <<"c">>}),
      p \in (FilterRules \cup {StringRule(<<>>), NumberRule(0), NumberRule(1),
      BooleanRule(FALSE), BooleanRule(TRUE), ([type |-> "object"])})}) : CallInit(input)

\* match(fin.name, fin.include): the value it returns, or the TypeError
CallMatch ==
  /\ fin.fn = "match"
  /\ ~fout.done
  /\ fout' = [done |-> TRUE,
              value |-> IF matchThrows(fin.include) THEN FALSE
                        ELSE match(fin.name, fin.include),
              threw |-> matchThrows(fin.include)]
  /\ UNCHANGED <<walkVars, fin>>

MatchSpec == MatchInit /\ [][CallMatch]_vars

\* ---------------------------------------------------- matchGlob on its own

\* matchGlob() is called with a path (some with a leading dot in the last
\* segment), one or two patterns, and options
MatchGlobInit == \E input \in ({[NoInput EXCEPT !.fn = "matchGlob", !.name = x[1],
      !.ginclude = Globs(x[2]), !.gopts = x[3]] : x \in ({<<"a">>, <<".", "a">>, <<".">>, <<"d",
      "/", "a">>, <<"d", "/", ".", "a">>, <<"d", "\\", ".", "a">>, <<".", "d", "/", "a">>,
      <<"d", "/">>}) \X ({<< <<"a">> >>, << <<".", "a">> >>, << <<"*">> >>, << <<".", "*">> >>,
      << <<"*", "*", "/", ".", "*">> >>, << <<"d", "/", ".", "a">>, <<"?", "a">> >>, << <<"*",
      "*">> >>, <<>>}) \X ([dot : BOOLEAN, nocase : BOOLEAN,
      matchBase : BOOLEAN])}) : CallInit(input)

\* matchGlob(fin.name, fin.ginclude.patterns, fin.gopts)
CallMatchGlob ==
  /\ fin.fn = "matchGlob"
  /\ ~fout.done
  /\ fout' = [done |-> TRUE,
              value |-> matchGlob(fin.name, fin.ginclude.patterns, fin.gopts),
              threw |-> FALSE]
  /\ UNCHANGED <<walkVars, fin>>

MatchGlobSpec == MatchGlobInit /\ [][CallMatchGlob]_vars

\* ----------------------------------------------- sanitizeOptions on its own
\* A JavaScript value: t is its typeof, num/den its value when it is a finite
\* number, tag what else tells it apart.  Missing stands for a key that the
\* caller's object does not have.
JSValue(t, num, den, tag) == [t |-> t, num |-> num, den |-> den, tag |-> tag]
Missing == JSValue("missing", 0, 1, "")
Undefined == JSValue("undefined", 0, 1, "")
Null == JSValue("object", 0, 1, "null")
Num(num, den) == JSValue("number", num, den, "")
NaN == JSValue("number", 0, 1, "NaN")
InfinityValue == JSValue("number", 0, 1, "Infinity")
Str(s) == JSValue("string", 0, 1, s)
Bool(b) == JSValue("boolean", 0, 1, IF b THEN "true" ELSE "false")
Fn == JSValue("function", 0, 1, "f")
AbortSignalObject == JSValue("object", 0, 1, "AbortSignal")

OptionKeys ==
  <<"maxDepth", "include", "exclude", "yieldDirectories", "followSymlinks",
    "suppressErrors", "signal", "sort", "onProgress", "withStats">>

\* DEFAULT_OPTIONS, as JavaScript values
DefaultValues ==
  [maxDepth |-> InfinityValue, include |-> Null, exclude |-> Null,
   yieldDirectories |-> Bool(FALSE), followSymlinks |-> Bool(FALSE),
   suppressErrors |-> Bool(TRUE), signal |-> Null, sort |-> Null,
   onProgress |-> Null, withStats |-> Bool(FALSE)]

\* the values a caller is taken to give to an option
Candidates(key) ==
  IF key = "maxDepth"
    THEN {Num(0, 1), Num(5, 1), InfinityValue, Num(-1, 1), NaN, Str("invalid"),
          Num(3, 2), Undefined}
  ELSE IF key = "sort" THEN {Null, Str("asc"), Str("desc"), Fn, Str("invalid"), Undefined}
  ELSE IF key = "signal" THEN {Null, AbortSignalObject, (JSValue("object", 0, 1, "Object")),
        Undefined}
  ELSE IF key = "onProgress" THEN {Null, Fn, Str("invalid")}
  ELSE IF key \in {"include", "exclude"} THEN {Null, Str("a"), Fn}
  ELSE {Bool(TRUE), Bool(FALSE), Str("yes"), Null}

\* the objects that have at most budget of the keys OptionKeys[i], ...
RECURSIVE SuppliedOptions(_, _)
SuppliedOptions(i, budget) ==
  IF i > Len(OptionKeys) \/ budget = 0 THEN {[k \in DOMAIN DefaultValues |-> Missing]}
  ELSE SuppliedOptions(i + 1, budget)
       \cup {[r EXCEPT ![OptionKeys[i]] = v] :
               v \in Candidates(OptionKeys[i]), r \in SuppliedOptions(i + 1, budget - 1)}

\* the message of the Error that sanitizeOptions(o) throws at lines 25-60,
\* "" when it throws none
sanitizeOptionsError(o) ==
  LET merged == ([k \in DOMAIN DefaultValues |-> IF (o)[k] = Missing THEN DefaultValues[k] ELSE (o)[k]])
  IN IF merged.maxDepth # InfinityValue
        /\ (\/ merged.maxDepth.t # "number"
            \/ merged.maxDepth = NaN
            \/ merged.maxDepth.num < 0)
       THEN "maxDepth must be a non-negative number or Infinity"
     ELSE IF merged.sort # Null /\ merged.sort # Str("asc") /\ merged.sort # Str("desc")
             /\ merged.sort.t # "function"
       THEN "sort must be 'asc', 'desc', a function, or null"
     ELSE IF merged.signal # Null /\ merged.signal # AbortSignalObject
       THEN "signal must be an AbortSignal or null"
     ELSE IF merged.yieldDirectories.t # "boolean" THEN "yieldDirectories must be a boolean"
     ELSE IF merged.followSymlinks.t # "boolean" THEN "followSymlinks must be a boolean"
     ELSE IF merged.suppressErrors.t # "boolean" THEN "suppressErrors must be a boolean"
     ELSE IF merged.withStats.t # "boolean" THEN "withStats must be a boolean"
     ELSE IF merged.onProgress # Null /\ merged.onProgress.t # "function"
       THEN "onProgress must be a function or null"
     ELSE ""

\* sanitizeOptions() is called with an object of at most MaxSupplied options
SanitizeInit == \E input \in ({[fn |-> "sanitizeOptions",
      options |-> o] : o \in SuppliedOptions(1, MaxSupplied)}) : CallInit(input)

\* sanitizeOptions(fin.options): the record it returns, or the Error it throws
CallSanitizeOptions ==
  /\ fin.fn = "sanitizeOptions"
  /\ ~fout.done
  /\ fout' = [done |-> TRUE,
        value |-> ([k \in DOMAIN DefaultValues |-> IF (fin.options)[k] = Missing THEN DefaultValues[k] ELSE (fin.options)[k]]),
              threw |-> sanitizeOptionsError(fin.options) # "",
              message |-> sanitizeOptionsError(fin.options)]
  /\ UNCHANGED <<walkVars, fin>>

SanitizeSpec == SanitizeInit /\ [][CallSanitizeOptions]_vars

\* ----------------------------------------------------- errors.js on its own
\* the classes of src/src/errors.js: FStreamWalkError and its subclasses
ErrorClasses ==
  {"FStreamWalkError", "PermissionError", "PathNotFoundError", "InvalidPathError",
   "SymlinkLoopError", "AbortError", "MaxDepthError"}

\* the codes of the permission-denied family
PermissionCodes == {"EACCES", "EPERM"}

\* An error object: its class ("Error": not of the taxonomy), its code and
\* its path ("undefined" and <<>> when it has none).
NewError(cls, code, path) == [cls |-> cls, code |-> code, path |-> path]
\* the constructors of lines 8-81
FStreamWalkError(code, path) == NewError("FStreamWalkError", code, path)
PermissionError(path) == NewError("PermissionError", "EACCES", path)
PathNotFoundError(path) == NewError("PathNotFoundError", "ENOENT", path)
InvalidPathError(path) == NewError("InvalidPathError", "EINVAL", path)
SymlinkLoopError(path) == NewError("SymlinkLoopError", "ELOOP", path)
AbortError == NewError("AbortError", "ABORT_ERR", <<>>)
MaxDepthError(path) == NewError("MaxDepthError", "EMAXDEPTH", path)

wrapErrorAgain(e, path) ==
  IF e.code \in PermissionCodes THEN PermissionError(path)
  ELSE IF e.code = "ENOENT" THEN PathNotFoundError(path)
  ELSE IF e.code = "ELOOP" THEN SymlinkLoopError(path)
  ELSE IF e.code = "ENOTDIR" THEN InvalidPathError(path)
  ELSE FStreamWalkError(e.code, path)

\* wrapError(err, path)
wrapError(e, path) ==
  IF e.cls \in ErrorClasses THEN e
  ELSE IF e.code \in PermissionCodes THEN PermissionError(path)
  ELSE IF e.code = "ENOENT" THEN PathNotFoundError(path)
  ELSE IF e.code = "ELOOP" THEN SymlinkLoopError(path)
  ELSE IF e.code = "ENOTDIR" THEN InvalidPathError(path)
  ELSE FStreamWalkError(e.code, path)

\* JavaScript truthiness of the values given to suppressErrors
TruthyValue(v) == v \notin {Undefined, Null, Bool(FALSE), Missing}

shouldSuppressErrorAlways(e, suppressErrors) ==
  TruthyValue(IF suppressErrors \in {Missing, Undefined} THEN Bool(TRUE)
              ELSE suppressErrors)

\* shouldSuppressError(err, options), suppressErrors being options.suppressErrors
\* (Missing when options has no such key): the default of the destructuring
\* at line 129, then lines 131-145
shouldSuppressError(e, suppressErrors) ==
  LET suppress == IF suppressErrors \in {Missing, Undefined} THEN Bool(TRUE)
                  ELSE suppressErrors
  IN IF ~TruthyValue(suppress) THEN FALSE
     ELSE IF e.cls = "PermissionError" THEN TRUE
     ELSE e.code \in PermissionCodes

\* wrapError() and shouldSuppressError() are called with an error value
ErrorsInit == \E input \in ({[fn |-> "wrapError", error |-> e, path |-> p, path2 |-> q,
      suppressErrors |-> Missing] : e \in ({NewError("Error", c, Root) : c \in ({"EACCES",
      "EPERM", "ENOENT", "ELOOP", "ENOTDIR", "EIO", "undefined"})} \cup {FStreamWalkError("EIO",
      Root), PermissionError(Root), PathNotFoundError(Root), InvalidPathError(Root),
      SymlinkLoopError(Root), AbortError, MaxDepthError(Root)}), p \in ({Root, RootD}),
      q \in ({Root, RootD})} \cup {[fn |-> "shouldSuppressError", error |-> e, path |-> Root,
      path2 |-> Root, suppressErrors |-> v] : e \in ({NewError("Error", c,
      Root) : c \in ({"EACCES", "EPERM", "ENOENT", "ELOOP", "ENOTDIR", "EIO", "undefined"})}
      \cup {FStreamWalkError("EIO", Root), PermissionError(Root), PathNotFoundError(Root),
      InvalidPathError(Root), SymlinkLoopError(Root), AbortError, MaxDepthError(Root)}),
      v \in {Missing, Undefined, Bool(TRUE), Bool(FALSE), Null}}) : CallInit(input)

\* wrapError(fin.error, fin.path), and wrapError of its result with fin.path2
CallWrapError ==
  /\ fin.fn = "wrapError"
  /\ ~fout.done
  /\ fout' = [done |-> TRUE, value |-> wrapError(fin.error, fin.path),
              again |-> wrapError(wrapError(fin.error, fin.path), fin.path2),
              threw |-> FALSE]
  /\ UNCHANGED <<walkVars, fin>>

\* shouldSuppressError(fin.error, {suppressErrors: fin.suppressErrors})
CallShouldSuppressError ==
  /\ fin.fn = "shouldSuppressError"
  /\ ~fout.done
  /\ fout' = [done |-> TRUE, value |-> shouldSuppressError(fin.error, fin.suppressErrors),
              threw |-> FALSE]
  /\ UNCHANGED <<walkVars, fin>>

ErrorsNext == CallWrapError \/ CallShouldSuppressError

ErrorsSpec == ErrorsInit /\ [][ErrorsNext]_vars

\* --------------------------------------------------- helpers of the claims
IsPrefix(p, q) == Len(p) <= Len(q) /\ SubSeq(q, 1, Len(p)) = p
YieldedPaths == {yielded[i].path : i \in 1..Len(yielded)}
\* the traversal ran to its end with no I/O fault and no cancellation
Nominal == status = "completed" /\ outcome = "done" /\ faults = <<>> /\ ~aborted
\* isDirectory of a dirent as lines 72-81 compute it when the stat succeeds
IsDirectoryOf(d) ==
  IF d.kind = "link" /\ opts.followSymlinks THEN StatIsDirectory(d) ELSE d.kind = "dir"
\* every path below the root when symlinks are not followed
EntriesBelowRoot ==
  UNION {{[path |-> joinPath(p, tree[p][i].name), kind |-> tree[p][i].kind] :
            i \in 1..Len(tree[p])} : p \in DOMAIN tree}

\* the dirents of the set S in the order of sortType, whatever order they
\* were enumerated in
RECURSIVE InOrder(_, _)
InOrder(S, sortType) ==
  IF S = {} THEN <<>>
  ELSE LET first == CHOOSE d \in S : \A e \in S \ {d} : Before(d, e, sortType)
       IN <<first>> \o InOrder(S \ {first}, sortType)

\* What walk(path, options, depth, vis) yields, and the visited set it
\* leaves, when no I/O fails, the signal is not aborted and the consumer
\* pulls to the end: WalkEntries is the loop of lines 66-130 over the
\* dirents that are left.
RECURSIVE WalkResult(_, _, _)
RECURSIVE WalkEntries(_, _, _, _)
WalkResult(path, depth, vis) ==
  IF DepthExceeded(depth, opts.maxDepth) THEN [seq |-> <<>>, vis |-> vis]
  ELSE IF opts.followSymlinks /\ realpath(path) \in vis THEN [seq |-> <<>>, vis |-> vis]
  ELSE WalkEntries(path, depth,
        (IF opts.sort = "null" THEN Listing((path)) ELSE InOrder({Listing((path))[i] : i \in 1..Len(Listing((path)))}, opts.sort)),
                   IF opts.followSymlinks THEN vis \cup {realpath(path)} ELSE vis)

WalkEntries(path, depth, entries, vis) ==
  IF entries = <<>> THEN [seq |-> <<>>, vis |-> vis]
  ELSE LET dirent == Head(entries)
           isDirectory == IsDirectoryOf(dirent)
           isIncluded == applyFilters(dirent.name, opts)
           entry == [path |-> joinPath(path, dirent.name), depth |-> depth,
                     kind |-> dirent.kind, isDir |-> isDirectory,
                     stats |-> opts.withStats]
           own == IF isIncluded /\ (isDirectory => opts.yieldDirectories)
                  THEN <<entry>> ELSE <<>>
           below == IF isDirectory
                    THEN WalkResult(joinPath(path, dirent.name), depth + 1, vis)
                    ELSE [seq |-> <<>>, vis |-> vis]
           rest == WalkEntries(path, depth, Tail(entries), below.vis)
       IN [seq |-> own \o below.seq \o rest.seq, vis |-> rest.vis]

\* ------------------------------------------------------------------- claims
\* C3: exclude wins over include. A name is accepted iff it does not match
\* the exclude rule and the include rule is absent or matches it, for
\* applyFilters (with match) and for the filter of createGlobFilter (with
\* matchGlob); so a name that matches exclude is rejected whatever include is.
ExcludeWins ==
  fout.done =>
    IF fin.fn = "applyFilters"
    THEN LET excluded == fin.exclude.type # "null" /\ match(fin.name, fin.exclude)
             included == fin.include.type = "null" \/ match(fin.name, fin.include)
         IN /\ fout.value = (~excluded /\ included)
            /\ excluded => ~fout.value
    ELSE LET excluded == fin.gexclude.present
                         /\ matchGlob(fin.name, fin.gexclude.patterns, fin.gopts)
             included == ~fin.ginclude.present
                         \/ matchGlob(fin.name, fin.ginclude.patterns, fin.gopts)
         IN /\ fout.value = (~excluded /\ included)
            /\ excluded => ~fout.value

\* a name that matches both rules has been rejected by both filters' shape:
\* here by applyFilters
ExcludeWinsWitness ==
  /\ fout.done
  /\ fin.fn = "applyFilters"
  /\ fin.exclude.type # "null" /\ match(fin.name, fin.exclude)
  /\ fin.include.type # "null" /\ match(fin.name, fin.include)
  /\ ~fout.value

\* C1: no directory deeper than maxDepth is opened and every yielded entry has
\* a depth in 0..maxDepth; with maxDepth = 0 a traversal that ran to its end
\* yielded exactly the filter-passing children of the root, directories only
\* with yieldDirectories, each once; and the depth check raises no error: an
\* error that reaches the consumer is an I/O fault.
DepthLimit ==
  /\ \A i \in 1..Len(opens) : opens[i][2] >= 0 /\ opens[i][2] <= opts.maxDepth
  /\ \A i \in 1..Len(yielded) :
       /\ yielded[i].depth >= 0 /\ yielded[i].depth <= opts.maxDepth
       /\ yielded[i].depth = Len(yielded[i].path) - 2
  /\ (opts.maxDepth = 0 /\ Nominal) =>
       /\ YieldedPaths =
            {joinPath(Root, tree[Root][i].name) : i \in
               {k \in 1..Len(tree[Root]) :
                  /\ applyFilters(tree[Root][k].name, opts)
                  /\ IsDirectoryOf(tree[Root][k]) => opts.yieldDirectories}}
       /\ (\A i, j \in 1..Len(yielded) : yielded[i].path = yielded[j].path => i = j)
  /\ outcome = "threw" => \E k \in 1..Len(faults) : faults[k] = err

\* maxDepth = 0 on the nested tree: the root was the only directory opened,
\* its files were yielded and nothing of its subdirectory
DepthLimitWitness ==
  /\ opts.maxDepth = 0
  /\ tree = TreePlain
  /\ Nominal
  /\ Len(opens) = 1
  /\ Len(yielded) >= 2

\* C2: with unbounded depth, no filters and followSymlinks = false, a
\* traversal with no fault and no cancellation that ran to its end yielded
\* every non-directory entry below the root exactly once, and every directory
\* exactly once if yieldDirectories is set and no directory otherwise.
YieldsEveryEntryOnce ==
  (/\ Nominal
   /\ opts.maxDepth = Infinity
   /\ opts.include = NullRule /\ opts.exclude = NullRule
   /\ ~opts.followSymlinks) =>
    /\ (\A i, j \in 1..Len(yielded) : yielded[i].path = yielded[j].path => i = j)
    /\ {yielded[i].path : i \in {k \in 1..Len(yielded) : ~yielded[k].isDir}}
         = {e.path : e \in {x \in EntriesBelowRoot : x.kind # "dir"}}
    /\ {yielded[i].path : i \in {k \in 1..Len(yielded) : yielded[k].isDir}}
         = IF opts.yieldDirectories
           THEN {e.path : e \in {x \in EntriesBelowRoot : x.kind = "dir"}}
           ELSE {}

\* the nested tree with yieldDirectories: four files and two directories
YieldsEveryEntryOnceWitness ==
  /\ Nominal
  /\ tree = TreePlain
  /\ opts.maxDepth = Infinity
  /\ opts.include = NullRule /\ opts.exclude = NullRule
  /\ ~opts.followSymlinks
  /\ opts.yieldDirectories
  /\ Len(yielded) = 6

\* C4: pre-order depth-first. The entries below any directory form one
\* uninterrupted run of the yielded sequence, which the directory's own entry
\* (if yielded) starts; the active frames are nested one per depth, each in
\* the directory that its caller is processing, and while a frame is active
\* its caller stays at that dirent: it has read (or, when sorting, taken
\* from its array) nothing beyond it.
PreOrder ==
  /\ \A i, k \in 1..Len(yielded) : \A j \in 1..Len(yielded) :
       (i < j /\ j < k) =>
         \A n \in 2..Len(yielded[i].path) :
           LET P == SubSeq(yielded[i].path, 1, n)
           IN IsPrefix(P, yielded[k].path) => IsPrefix(P, yielded[j].path)
  /\ \A i, j \in 1..Len(yielded) :
       (yielded[j].isDir /\ IsPrefix(yielded[j].path, yielded[i].path)) => j <= i
  /\ \A i \in 1..Len(stack) : stack[i].depth = i - 1
  /\ \A i \in 1..(Len(stack) - 1) :
       LET f == stack[i]
       IN /\ f.pc = "child"
          /\ f.isDir
          /\ stack[i + 1].path = joinPath(f.path, f.cur.name)
          /\ IF opts.sort = "null"
             THEN f.pos >= 1 /\ Listing(f.path)[f.pos] = f.cur
             ELSE f.idx >= 1 /\ f.entries[f.idx] = f.cur

\* the nested tree: a file two directories down was yielded after its
\* directories' entries and before the root's last file, which came last
PreOrderWitness ==
  /\ tree = TreePlain
  /\ opts.yieldDirectories
  /\ opts.sort = "null"
  /\ Nominal
  /\ Len(yielded) = 6
  /\ yielded[2].path = RootD
  /\ yielded[5].path = joinPath(RootDE, <<"f">>)
  /\ yielded[6].path = joinPath(Root, <<"a">>)

AbortBound ==
  /\ [](aborted => Len(yielded) < abortAt + 2)
  /\ (aborted ~> status = "completed")

\* the signal was aborted while the walker was running (a stat of the entry
\* it was about to yield was in flight), one more entry surfaced, and the
\* traversal ended with entries of the tree left unvisited
AbortBoundWitness ==
  /\ aborted
  /\ abortWhen = "running"
  /\ abortAt >= 1
  /\ Len(yielded) = abortAt + 1
  /\ status = "completed" /\ outcome = "done"
  /\ faults = <<>>
  /\ opts.maxDepth = Infinity
  /\ ~opts.followSymlinks
  /\ Len(yielded) < 4

\* C7: when the signal is aborted while the generator is suspended at a
\* yield, after the N-th entry, no further entry is yielded and the
\* traversal completes, normally unless an I/O fault is thrown; when it is
\* aborted before the first pull, nothing is yielded and no directory is
\* opened.
AbortAtYield ==
  /\ [](abortWhen = "suspendedYield" => Len(yielded) = abortAt)
  /\ [](abortWhen = "suspendedStart" => yielded = <<>> /\ opens = <<>>)
  /\ []((abortWhen \in {"suspendedYield", "suspendedStart"}
           /\ status = "completed" /\ outcome = "threw") => faults # <<>>)
  /\ (abortWhen \in {"suspendedYield", "suspendedStart"} ~> status = "completed")

\* the consumer aborted after the first of the four entries, with no depth
\* limit, and the traversal completed with that one entry
AbortAtYieldWitness ==
  /\ abortWhen = "suspendedYield"
  /\ abortAt = 1
  /\ status = "completed" /\ outcome = "done"
  /\ faults = <<>>
  /\ Len(yielded) = 1
  /\ opts.maxDepth = Infinity

\* the handles of the frames that are active
FrameHandles == {stack[i].handle : i \in 1..Len(stack)} \ {0}

\* C8: a directory handle is open only while the frame that opened it is
\* active: each active frame owns a handle of its own or none, a frame that
\* has returned (normally, by the consumer's break, on cancellation or by an
\* error of its own or of a descendant) has left no handle open, and once the
\* traversal has ended no handle is open.
HandlesScoped ==
  /\ openHandles = FrameHandles
  /\ \A i, j \in 1..Len(stack) :
        stack[i].handle # 0 /\ stack[i].handle = stack[j].handle => i = j
  /\ status = "completed" => stack = <<>> /\ openHandles = {}

\* an error thrown two levels down escalated to the consumer, and the three
\* handles that had been opened are closed
HandlesScopedWitness ==
  /\ status = "completed" /\ outcome = "threw"
  /\ Len(opens) = 3
  /\ Len(err.path) = 3
  /\ openHandles = {}

\* the faults that abandon the frame of faults[k].path's parent directory
ParentAbandoned(k) ==
  \E j \in 1..Len(faults) :
    faults[j].op = "read" /\ IsPrefix(faults[j].path, Front(faults[k].path))

Propagating ==
  {k \in 1..Len(faults) :
     \/ faults[k].op \in {"opendir", "read", "entrystat"}
     \/ faults[k].op = "realpath" /\ ~faults[k].revisit}

\* C10 as stated: with suppressErrors = false no entry is yielded after the
\* first I/O fault, whichever operation it is of, and the traversal ends by
\* throwing that fault to the consumer.
FirstFaultPropagates ==
  (~opts.suppressErrors /\ faults # <<>>) =>
    /\ Len(yielded) = faults[1].at
    /\ status = "completed" => outcome = "threw" /\ err = faults[1]

\* C10, amended: with suppressErrors = false the first fault of opendir, of
\* a directory read, of the stat for withStats, or of realpath for a path not
\* yet in visited is the last I/O operation of the traversal: every active
\* frame unwinds, no entry is yielded after it, and the traversal ends by
\* throwing it to the consumer.
FirstRethrownFaultPropagates ==
  (~opts.suppressErrors /\ Propagating # {}) =>
    LET k == CHOOSE x \in Propagating : \A y \in Propagating : x <= y
    IN /\ k = Len(faults)
       /\ Len(yielded) = faults[k].at
       /\ err = faults[k]
       /\ status = "completed" => outcome = "threw"
       /\ status # "completed" =>
            /\ status = "running" /\ unwind = "throw"
            /\ \A i \in 1..Len(stack) : stack[i].pc \in {"finally", "child"}

\* the subdirectory could not be opened after one entry of the root had been
\* yielded: the error reached the consumer and the sibling that comes after
\* the subdirectory was never yielded
FirstRethrownFaultPropagatesWitness ==
  /\ ~opts.suppressErrors
  /\ tree = TreePlain
  /\ opts.include = NullRule /\ opts.exclude = NullRule
  /\ status = "completed" /\ outcome = "threw"
  /\ err.op = "opendir" /\ err.path = RootD
  /\ Len(yielded) = 1
  /\ joinPath(Root, <<"a">>) \notin YieldedPaths

\* C11 as stated: with suppressErrors = false the error a traversal ends
\* with is an error of the taxonomy that names the failing path, and it is
\* a PermissionError when the fault is a permission fault (EACCES).
SurfacedErrorIsClassified ==
  (~opts.suppressErrors /\ status = "completed" /\ outcome = "threw") =>
    /\ err.cls \in ErrorClasses
    /\ err.path = faults[Len(faults)].path
    /\ err.code = "EACCES" => err.cls = "PermissionError"

\* C12 as stated: under suppressErrors = true a fault of opendir, of a read
\* or of a stat whose code is not of the permission-denied family is not
\* suppressed: no entry is yielded after it and the traversal ends by
\* throwing it to the consumer.
OnlyPermissionSuppressed ==
  opts.suppressErrors =>
    \A k \in 1..Len(faults) :
      (faults[k].op \in {"opendir", "read", "stat", "entrystat"}
         /\ faults[k].code \notin PermissionCodes) =>
        /\ Len(yielded) = faults[k].at
        /\ status = "completed" => outcome = "threw" /\ err = faults[k]

\* C13 as stated: with suppressErrors = false a traversal whose signal was
\* aborted before the first pull ends by throwing an AbortError to the
\* consumer.
PresetAbortSurfaces ==
  (~opts.suppressErrors /\ abortWhen = "suspendedStart" /\ status = "completed") =>
    outcome = "threw" /\ err.cls = "AbortError"

\* C14 as stated: when include or exclude is an invalid rule, the traversal
\* yields no entry and, unless it is cancelled or an I/O fault ends it first,
\* ends by throwing the TypeError, whatever suppressErrors is.
InvalidRuleRaises ==
  (((opts.include).type \notin {"null", "string", "regexp",
        "function"}) \/ ((opts.exclude).type \notin {"null", "string", "regexp",
        "function"})) =>
    /\ yielded = <<>>
    /\ (status = "completed" /\ ~aborted /\ faults = <<>>) =>
         outcome = "threw" /\ err.cls = "TypeError"

\* C15 as stated: with include: "" the traversal yields no entry and, unless
\* it is cancelled or an I/O fault ends it first, ends by throwing a
\* configuration error.
EmptyIncludeRaises ==
  opts.include = StringRule(<<>>) =>
    /\ yielded = <<>>
    /\ (status = "completed" /\ ~aborted /\ faults = <<>>) =>
         outcome = "threw" /\ err.cls = "TypeError"

\* C16: match(name, rule) returns true for null/undefined, whether name
\* contains the string for a non-empty string, the result of the test for a
\* RegExp and of the call for a function; for every other rule (the empty
\* string, a boolean, a number, an object) it raises the TypeError and
\* returns nothing.
MatchClosed ==
  (fout.done /\ fin.fn = "match") =>
    LET p == fin.include
        n == fin.name
    IN IF p.type = "null" THEN ~fout.threw /\ fout.value
       ELSE IF p.type = "string" /\ p.pat # <<>>
         THEN /\ ~fout.threw
              /\ fout.value <=> \E i \in 1..Len(n), j \in 1..Len(n) : SubSeq(n, i, j) = p.pat
       ELSE IF p.type \in {"regexp", "function"}
         THEN ~fout.threw /\ (fout.value <=> n \in p.accepts)
       ELSE fout.threw /\ ~fout.value

\* match() was called with the number 0 and raised
MatchClosedWitness ==
  /\ fout.done /\ fin.fn = "match"
  /\ fin.include = NumberRule(0)
  /\ fout.threw

\* a non-negative integer, or Infinity
IsDepth(v) ==
  \/ v = InfinityValue
  \/ v.t = "number" /\ v.tag = "" /\ v.den = 1 /\ v.num >= 0

\* C17 as stated: sanitizeOptions throws iff maxDepth is no non-negative
\* integer and not Infinity, or sort is none of null, 'asc', 'desc' and a
\* function, or signal is neither null nor an AbortSignal, or one of the four
\* flags is no boolean, or onProgress is neither null nor a function;
\* otherwise it returns the ten options, those supplied unchanged and the
\* others from the defaults.
SanitizeValidates ==
  (fout.done /\ fin.fn = "sanitizeOptions") =>
    LET given(k) == IF fin.options[k] = Missing THEN DefaultValues[k] ELSE fin.options[k]
        invalid ==
          \/ ~IsDepth(given("maxDepth"))
          \/ given("sort") \notin {Null, Str("asc"), Str("desc"), Fn}
          \/ given("signal") \notin {Null, AbortSignalObject}
          \/ \E k \in {"yieldDirectories", "followSymlinks", "suppressErrors", "withStats"} :
               given(k) \notin {Bool(TRUE), Bool(FALSE)}
          \/ given("onProgress") \notin {Null, Fn}
    IN /\ fout.threw <=> invalid
       /\ ~fout.threw =>
            /\ DOMAIN fout.value = {OptionKeys[i] : i \in 1..Len(OptionKeys)}
            /\ \A k \in DOMAIN fout.value : fout.value[k] = given(k)

\* C18: shouldSuppressError returns true iff suppressErrors is true, or is
\* omitted, and the error is a permission-denied error: a PermissionError, or
\* an error whose code is EACCES or EPERM.
SuppressOnlyPermission ==
  (fout.done /\ fin.fn = "shouldSuppressError") =>
    (fout.value <=>
       /\ fin.suppressErrors \in {Bool(TRUE), Missing, Undefined}
       /\ \/ fin.error.cls = "PermissionError"
          \/ fin.error.code = "EACCES"
          \/ fin.error.code = "EPERM")

\* with suppressErrors omitted a plain EPERM error is suppressed
SuppressOnlyPermissionWitness ==
  /\ fout.done /\ fin.fn = "shouldSuppressError"
  /\ fin.suppressErrors = Missing
  /\ fin.error = NewError("Error", "EPERM", Root)
  /\ fout.value

\* C19: wrapError returns an error of the taxonomy as it is; any other error
\* it maps by its code (EACCES/EPERM, ENOENT, ELOOP, ENOTDIR, or anything
\* else, whose code it keeps) to an error that carries the given path; and
\* wrapping the result again, with whatever path, changes nothing.
WrapErrorClassifies ==
  (fout.done /\ fin.fn = "wrapError") =>
    LET e == fin.error
        r == fout.value
    IN /\ r.cls \in ErrorClasses
       /\ e.cls \in ErrorClasses => r = e
       /\ e.cls \notin ErrorClasses =>
            /\ r.path = fin.path
            /\ e.code \in {"EACCES", "EPERM"} => r.cls = "PermissionError"
            /\ e.code = "ENOENT" => r.cls = "PathNotFoundError"
            /\ e.code = "ELOOP" => r.cls = "SymlinkLoopError"
            /\ e.code = "ENOTDIR" => r.cls = "InvalidPathError"
            /\ e.code \notin {"EACCES", "EPERM", "ENOENT", "ELOOP", "ENOTDIR"} =>
                 r.cls = "FStreamWalkError" /\ r.code = e.code
       /\ fout.again = r

\* an ENOENT error was wrapped for one path, and wrapping the result for
\* another path left its path as it was
WrapErrorClassifiesWitness ==
  /\ fout.done /\ fin.fn = "wrapError"
  /\ fin.error = NewError("Error", "ENOENT", Root)
  /\ fin.path = RootD /\ fin.path2 = Root
  /\ fout.value = PathNotFoundError(RootD)
  /\ fout.again = fout.value

\* C20: without withStats no stat is made for the entries and none carries
\* stats.  With withStats the stat of an entry is made when the entry is
\* about to be yielded and has not been yielded; an entry carries stats
\* unless that stat failed; when it fails under suppressErrors = true the
\* entry is the next one yielded, without stats, and the traversal goes on
\* (having run to its end, it has yielded every filter-passing non-directory
\* sibling of the entry, unless a read of their directory failed); when it
\* fails under suppressErrors = false the entry is never yielded, nothing is
\* yielded after the failure and the traversal ends by throwing it.
StatsPerEntry ==
  /\ ~opts.withStats =>
       /\ \A i \in 1..Len(yielded) : ~yielded[i].stats
       /\ ({k \in 1..Len(faults) : faults[k].op = "entrystat"}) = {}
       /\ \A i \in 1..Len(stack) : stack[i].pc # "stat"
  /\ \A i \in 1..Len(yielded) :
       yielded[i].stats <=>
         (opts.withStats /\ \A k \in ({k \in 1..Len(faults) : faults[k].op = "entrystat"}) : faults[k].path # yielded[i].path)
  /\ \A i \in 1..Len(stack) :
       stack[i].pc = "stat" =>
         /\ i = Len(stack)
         /\ joinPath(stack[i].path, stack[i].cur.name) \notin YieldedPaths
         /\ applyFilters(stack[i].cur.name, opts)
  /\ \A k \in ({k \in 1..Len(faults) : faults[k].op = "entrystat"}) :
       IF opts.suppressErrors
       THEN /\ Len(yielded) > faults[k].at
            /\ yielded[faults[k].at + 1].path = faults[k].path
            /\ ~yielded[faults[k].at + 1].stats
            /\ (status = "completed" /\ outcome = "done" /\ ~aborted
                  /\ ~ParentAbandoned(k)) =>
                 \A n \in 1..Len(Listing(Front(faults[k].path))) :
                   LET d == Listing(Front(faults[k].path))[n]
                   IN (~IsDirectoryOf(d) /\ applyFilters(d.name, opts)) =>
                        joinPath(Front(faults[k].path), d.name) \in YieldedPaths
       ELSE /\ Len(yielded) = faults[k].at
            /\ faults[k].path \notin YieldedPaths
            /\ err = faults[k]
            /\ status = "completed" => outcome = "threw"

\* under suppressErrors = true the stat of the first file failed: the file
\* was yielded without stats, and the three others after it with stats
StatsPerEntryWitness ==
  /\ tree = TreePlain
  /\ opts.withStats /\ opts.suppressErrors
  /\ status = "completed" /\ outcome = "done"
  /\ Len(faults) = 1 /\ faults[1].op = "entrystat"
  /\ Len(yielded) = 4
  /\ yielded[1].path = faults[1].path /\ ~yielded[1].stats
  /\ \A i \in 2..4 : yielded[i].stats

\* C21 as stated: with onProgress configured, the entries passed to
\* onProgress are the yielded entries in their order, the callback for an
\* entry coming before the next entry is yielded, and every entry that was
\* yielded has been passed to it by the time the traversal has ended.
ProgressPerEntry ==
  opts.onProgress =>
    /\ Len(progress) <= Len(yielded)
    /\ progress = SubSeq(yielded, 1, Len(progress))
    /\ Len(progress) >= Len(yielded) - 1
    /\ status = "completed" => progress = yielded

\* C22: with sort 'asc' or 'desc' every frame processes the dirents it
\* collected in ascending, resp. descending, order of their names, whatever
\* order the file system enumerated them in; so a traversal that ran to its
\* end with no fault and no cancellation has yielded the one sequence that
\* the names alone determine, and it is [alpha.txt, beta.txt, sub/gamma.txt]
\* for the root {alpha.txt, beta.txt, sub/gamma.txt} with sort 'asc'.
SortedSiblings ==
  opts.sort # "null" =>
    /\ \A k \in 1..Len(stack) :
         stack[k].pc \in {"loop", "classify", "stat", "resume", "child"} =>
           /\ \A i, j \in 1..Len(stack[k].entries) :
                i < j => Before(stack[k].entries[i], stack[k].entries[j], opts.sort)
           /\ stack[k].cur # NoDirent => stack[k].cur = stack[k].entries[stack[k].idx]
    /\ \A i, j \in 1..Len(yielded) :
         (i < j /\ Front(yielded[i].path) = Front(yielded[j].path)) =>
           IF opts.sort = "asc"
           THEN NameLess(Last(yielded[i].path), Last(yielded[j].path))
           ELSE NameLess(Last(yielded[j].path), Last(yielded[i].path))
    /\ Nominal => yielded = WalkResult(Root, 0, {}).seq
    /\ (/\ Nominal
        /\ tree \in Reordered(TreeExample)
        /\ opts = [DEFAULT_OPTIONS EXCEPT !.sort = "asc"]) =>
         [i \in 1..Len(yielded) |-> yielded[i].path]
           = << joinPath(Root, <<"a", "l", "p", "h", "a", ".", "t", "x", "t">>),
                joinPath(Root, <<"b", "e", "t", "a", ".", "t", "x", "t">>),
                joinPath(RootSub, <<"g", "a", "m", "m", "a", ".", "t", "x", "t">>) >>

\* the file system enumerated beta.txt, sub, alpha.txt, and the traversal
\* with sort 'asc' yielded alpha.txt first and sub/gamma.txt last
SortedSiblingsWitness ==
  /\ tree = TreeExample
  /\ opts = [DEFAULT_OPTIONS EXCEPT !.sort = "asc"]
  /\ Nominal
  /\ Len(yielded) = 3
  /\ yielded[1].path = joinPath(Root, <<"a", "l", "p", "h", "a", ".", "t", "x", "t">>)
  /\ yielded[3].path = joinPath(RootSub, <<"g", "a", "m", "m", "a", ".", "t", "x", "t">>)

\* the last segment of a path, split at '/' and at '\', starts with a dot
DotBasename(path) ==
  \E k \in 0..(Len(path) - 1) :
    /\ k = 0 \/ path[k] \in {"/", "\\"}
    /\ path[k + 1] = "."
    /\ \A j \in (k + 1)..Len(path) : path[j] \notin {"/", "\\"}

\* C23: matchGlob returns false for a path whose basename starts with '.'
\* when the dot option is not set, whatever the patterns are, also when one
\* of them names the dotfile or is the preset '**/.*'; with dot set, such a
\* path matches exactly when one of the patterns matches it, as a path
\* without a dot does with or without the option: '*', '.*', '**/.*' and the
\* dotfile's own name all match it.
DotfilesNeedDot ==
  (fout.done /\ fin.fn = "matchGlob") =>
    LET path == fin.name
        patterns == fin.ginclude.patterns
        some == \E i \in 1..Len(patterns) :
                  matchOnePattern(NormalizeSeparators(path), patterns[i], fin.gopts)
    IN /\ (DotBasename(path) /\ ~fin.gopts.dot) => ~fout.value
       /\ (~DotBasename(path) \/ fin.gopts.dot) => (fout.value <=> some)
       /\ (fin.gopts.dot /\ path \in {<<".", "a">>, <<"d", "/", ".", "a">>}
             /\ patterns \in {<< <<"*">> >>, << <<".", "*">> >>,
                              << <<"*", "*", "/", ".", "*">> >>, << <<"*", "*">> >>}) =>
            fout.value
       /\ (fin.gopts.dot /\ path = <<".", "a">> /\ patterns = << <<".", "a">> >>) =>
            fout.value

\* the path d/.a was tried against the pattern that names it, without the
\* dot option, and did not match
DotfilesNeedDotWitness ==
  /\ fout.done /\ fin.fn = "matchGlob"
  /\ fin.name = <<"d", "/", ".", "a">>
  /\ fin.ginclude.patterns = << <<"d", "/", ".", "a">>, <<"?", "a">> >>
  /\ fin.gopts = [dot |-> FALSE, nocase |-> FALSE, matchBase |-> FALSE]
  /\ ~fout.value

\* what both statements of C24 say of a traversal without a sort mode: no
\* frame ever holds an array of dirents, and a frame that is processing a
\* dirent, or waiting for the subtree beneath it, has read nothing beyond it
StreamsUnsorted ==
  opts.sort = "null" =>
    \A k \in 1..Len(stack) :
      /\ stack[k].entries = <<>> /\ stack[k].idx = 0
      /\ stack[k].pos <= Len(Listing(stack[k].path))
      /\ stack[k].pc \in {"classify", "stat", "resume", "child"} =>
           stack[k].pos >= 1 /\ Listing(stack[k].path)[stack[k].pos] = stack[k].cur

\* C24 as stated: without a sort mode no frame holds unread or unprocessed
\* siblings; with a sort mode the collected arrays never span more than one
\* directory level at any point of the traversal.
BufferSpansOneLevel ==
  /\ StreamsUnsorted
  /\ opts.sort # "null" => Cardinality(({k \in 1..Len(stack) : stack[k].entries # <<>>})) <= 1

\* C24, amended: without a sort mode no frame holds unread or unprocessed
\* siblings; with a sort mode every frame collects the dirents of its own
\* directory only, each once, and nothing of another level, and holds that
\* array while the subtrees beneath it are walked: the arrays held at one
\* time are those of the active frames, one for each level of the path
\* being walked.
BufferPerFrame ==
  /\ StreamsUnsorted
  /\ opts.sort # "null" =>
       /\ \A k \in 1..Len(stack) :
            LET f == stack[k]
                list == Listing(f.path)
            IN /\ ~(f.handle = 0 /\ f.entries # <<>>)
               /\ Len(f.entries) <= f.pos /\ f.pos <= Len(list)
               /\ \A i \in 1..Len(f.entries) : \E n \in 1..f.pos : f.entries[i] = list[n]
               /\ \A i, j \in 1..Len(f.entries) : f.entries[i] = f.entries[j] => i = j
               /\ f.idx <= Len(f.entries)
               /\ f.pc = "child" => f.idx >= 1 /\ f.entries[f.idx] = f.cur
       /\ \A k \in ({k \in 1..Len(stack) : stack[k].entries # <<>>}) : stack[k].depth = k - 1

\* with sort 'asc' on the nested tree, the frames of three levels hold their
\* arrays at the same time
BufferPerFrameWitness ==
  /\ tree = TreePlain
  /\ opts.sort = "asc"
  /\ Len(stack) = 3
  /\ ({k \in 1..Len(stack) : stack[k].entries # <<>>}) = {1, 2, 3}
  /\ Len(stack[1].entries) = 3 /\ Len(stack[2].entries) = 2

\* C25: with followSymlinks = true and every realpath succeeding, the
\* visited set only grows; the canonical path of a directory is in it when
\* the directory is opened; no canonical path is opened twice in one
\* traversal; and a frame that finds its canonical path in the set returns
\* at once, opening nothing and yielding nothing.
VisitedOnce ==
  /\ [][visited \subseteq visited']_vars
  /\ []((opts.followSymlinks /\ (\A k \in 1..Len(faults) : faults[k].op # "realpath")) =>
          /\ \A i \in 1..Len(opens) : Resolve(opens[i][1]) \in visited
          /\ \A k \in 1..Len(stack) :
               stack[k].pc \notin {"entry", "realpath"} => Resolve(stack[k].path) \in visited
          /\ \A i, j \in 1..Len(opens) :
               Resolve(opens[i][1]) = Resolve(opens[j][1]) => i = j)
  /\ [][(/\ At("realpath") /\ stack' # stack
          /\ (\A k \in 1..Len(faults) : faults[k].op # "realpath")' /\ Resolve(Top.path) \in visited) =>
          /\ stack' = IF Len(stack) = 1 THEN <<>>
                      ELSE [Front(stack) EXCEPT ![Len(stack) - 1].pc = "loop",
                                                ![Len(stack) - 1].cur = NoDirent,
                                                ![Len(stack) - 1].isDir = FALSE,
                                                ![Len(stack) - 1].stats = FALSE]
          /\ opens' = opens /\ yielded' = yielded /\ visited' = visited]_vars

\* the link r/l to the directory r/d was walked first; the frame for r/d
\* then found its canonical path in the set and returned: one open for the
\* two paths, and nothing yielded below r/d
VisitedOnceWitness ==
  /\ tree = TreeLinks
  /\ opts.followSymlinks
  /\ status = "completed" /\ outcome = "done" /\ ~aborted
  /\ (\A k \in 1..Len(faults) : faults[k].op # "realpath") /\ ({i \in 1..Len(faults) : faults[i].injected}) = {}
  /\ visited = {Root, RootD}
  /\ Len(opens) = 2
  /\ opens[2][1] = joinPath(Root, <<"l">>)
  /\ joinPath(joinPath(Root, <<"l">>), <<"g">>) \in YieldedPaths
  /\ joinPath(RootD, <<"g">>) \notin YieldedPaths

\* C26 as stated: with followSymlinks, the path of a directory whose
\* realpath failed is in the visited set from then on, also when the error
\* is rethrown; and this ends the traversal of a tree with a symlink cycle
\* when realpath fails for every directory: the walker does not go round the
\* cycle, no directory is walked inside a walk of itself, so that the
\* descent ends whatever the depth limit is.
LiteralPathEndsCycle ==
  opts.followSymlinks =>
    /\ \A k \in 1..Len(faults) :
         faults[k].op = "realpath" => faults[k].path \in visited
    /\ \A i, j \in ({k \in 1..Len(stack) : stack[k].pc \notin {"entry", "realpath"}}) :
         Resolve(stack[i].path) = Resolve(stack[j].path) => i = j

\* C27: two traversals over the same tree with followSymlinks = true, their
\* pulls interleaved in any order, do not interfere. Each call has a
\* VisitedSet and handles of its own: a call that has not been pulled yet has
\* an empty set, also when it is a re-invocation after a finished or an
\* abandoned traversal; the open handles of a traversal are those of its own
\* frames; and as long as no I/O failed for it, a traversal has yielded a
\* prefix of the sequence it yields alone, and that whole sequence once it
\* has run to its end without cancellation.
TraversalsIndependent ==
  /\ status = "suspendedStart" => visited = {}
  /\ other.status = "suspendedStart" => other.visited = {}
  /\ openHandles = FrameHandles
  /\ other.openHandles = {other.stack[i].handle : i \in 1..Len(other.stack)} \ {0}
  /\ faults = <<>> => IsPrefix(yielded, (WalkResult(Root, 0, {}).seq))
  /\ other.faults = <<>> => IsPrefix(other.yielded, (WalkResult(Root, 0, {}).seq))
  /\ Nominal => yielded = (WalkResult(Root, 0, {}).seq)
  /\ (other.status = "completed" /\ other.outcome = "done" /\ other.faults = <<>>
        /\ ~aborted) => other.yielded = (WalkResult(Root, 0, {}).seq)

\* a traversal that was re-invoked after an earlier one had ended is
\* suspended at the yield of r/f, with its own directory open and the root
\* in its set, while the second traversal, pulled in between, has run to its
\* end and yielded what it yields alone
TraversalsIndependentWitness ==
  /\ other.live /\ other.restarts = 1
  /\ opts.followSymlinks
  /\ status = "suspendedYield" /\ faults = <<>>
  /\ visited = {Root} /\ openHandles # {}
  /\ Len(yielded) = 1
  /\ other.status = "completed" /\ other.outcome = "done" /\ other.faults = <<>>
  /\ ~aborted
  /\ other.yielded = (WalkResult(Root, 0, {}).seq) /\ (WalkResult(Root, 0, {}).seq) # <<>>
  /\ other.visited = {Root}

UnfollowedLinks ==
  /\ <>(status = "completed")
  /\ [](/\ visited = {}
        /\ \A k \in 1..Len(stack) :
             /\ stack[k].pc \notin {"realpath", "classify"}
             /\ stack[k].path \in DOMAIN tree
        /\ \A i, j \in 1..Len(opens) :
             /\ opens[i][1] \in DOMAIN tree
             /\ opens[i][1] = opens[j][1] => i = j
        /\ \A i \in 1..Len(yielded) :
             yielded[i].kind = "link" =>
               ~yielded[i].isDir /\ applyFilters(Last(yielded[i].path), opts)
        /\ Nominal =>
             \A p \in ({p \in DOMAIN tree : ~DepthExceeded(Len(p) - 1,
                   opts.maxDepth)}) : \A i \in 1..Len(tree[p]) :
               (tree[p][i].kind = "link" /\ applyFilters(tree[p][i].name, opts))
                 => joinPath(p, tree[p][i].name) \in YieldedPaths)

\* on the tree with the cycles r/l -> r and r/d/l -> r both links were
\* yielded as non-directories, two directories were opened and the set is
\* empty
UnfollowedLinksWitness ==
  /\ tree = TreeCycle
  /\ ~opts.followSymlinks
  /\ Nominal
  /\ visited = {}
  /\ Len(opens) = 2
  /\ \E i, j \in 1..Len(yielded) :
       /\ yielded[i].path = joinPath(Root, <<"l">>)
       /\ yielded[i].kind = "link" /\ ~yielded[i].isDir
       /\ yielded[j].path = joinPath(RootD, <<"l">>)
       /\ yielded[j].kind = "link" /\ ~yielded[j].isDir

\* C30: an exception thrown by caller-supplied code while a frame processes
\* its entries (a predicate filter, a custom comparator, the onProgress
\* callback) is handled like an I/O error of that frame. The frame goes to
\* its finally block, and no entry of its directory or beneath it is
\* processed or yielded afterwards; its handle is closed when it has gone.
\* With suppressErrors = true nothing reaches the consumer and the parent
\* goes on with its next sibling: a traversal that then runs to its end has
\* yielded what it yields without the exception, less the rest of that
\* directory. With suppressErrors = false nothing more is yielded and the
\* traversal ends by throwing that exception.
CallbackCaught ==
  /\ \A k \in CallbackFaults :
       LET dir == faults[k].path
       IN /\ \A i \in (faults[k].at + 1)..Len(yielded) : ~IsPrefix(dir, yielded[i].path)
          /\ \A j \in 1..Len(stack) :
               IsPrefix(dir, stack[j].path) => stack[j].path = dir /\ stack[j].pc = "finally"
          /\ \A h \in openHandles :
               opens[h][1] = dir => \E j \in 1..Len(stack) : stack[j].handle = h
          /\ opts.suppressErrors =>
               outcome # "threw" /\ unwind # "throw" /\ err = NoError
          /\ ~opts.suppressErrors =>
               /\ k = Len(faults)
               /\ Len(yielded) = faults[k].at
               /\ status \in {"running", "completed"}
               /\ \A j \in 1..Len(stack) : stack[j].pc \in {"finally", "child"}
               /\ status = "completed" => outcome = "threw" /\ err = faults[k]
  /\ (status = "completed" /\ outcome = "done" /\ ~aborted
        /\ Len(faults) = 1 /\ CallbackFaults = {1})
       => yielded = (LET elsewhere(e) == ~IsPrefix((faults[1].path), e.path)
             IN SubSeq((WalkResult(Root, 0, {}).seq), 1,
             (faults[1].at)) \o SelectSeq(SubSeq((WalkResult(Root, 0, {}).seq),
             (faults[1].at) + 1, Len((WalkResult(Root, 0, {}).seq))), elsewhere))

\* the include predicate threw for the name e in the frame of r/d, after
\* r/d/ca had been yielded: r/d/e/f was not yielded, the root went on to
\* yield r/a, and the traversal ended normally
CallbackCaughtWitness ==
  /\ opts.suppressErrors /\ opts.include.type = "function"
  /\ status = "completed" /\ outcome = "done" /\ err = NoError
  /\ Len(faults) = 1
  /\ faults[1].op = "filter" /\ faults[1].path = RootD /\ faults[1].at = 1
  /\ Len(opens) = 2 /\ openHandles = {}
  /\ Len(yielded) = 2
  /\ yielded[1].path = joinPath(RootD, <<"c", "a">>)
  /\ yielded[2].path = joinPath(Root, <<"a">>)
  /\ joinPath(RootDE, <<"f">>) \in {(WalkResult(Root, 0,
        {}).seq)[i].path : i \in 1..Len((WalkResult(Root, 0, {}).seq))}

====
